---- MODULE Spec2Model ----
(***************************************************************************)
(* Model of the ernest-oracle DLC numeric oracle: the Postgres-backed      *)
(* store (events, event_nonces, event_types, parlay contracts), the        *)
(* in-memory nonce allocator, the HTTP handlers that create and sign       *)
(* events, and the maturity watcher.                                       *)
(*                                                                         *)
(* Every database transaction is one atomic step taken at its commit;      *)
(* every await between transactions is a point where other tasks run.      *)
(* The signing library (kormir) is not part of the repository sources; its *)
(* create_numeric_event / sign_numeric_event are modelled from sections    *)
(* 4.D and 4.F of the specification.                                       *)
(***************************************************************************)
EXTENDS Integers, Sequences, FiniteSets, TLC

VARIABLES
    now,               \* current unix time (abstract seconds)
    events,            \* table events: event_id -> row
    event_nonces,      \* table event_nonces: index -> row
    event_types,       \* table event_types: event_id -> tag
    parlay_contracts,  \* tables parlay_contracts + parlay_parameters: id -> contract
    audit,             \* tables numeric_attestation_outcome / _data_outcome
    current_index,     \* PostgresStorage.current_index (AtomicU32)
    next_uuid,         \* number of event ids drawn so far (Uuid::new_v4 is fresh)
    req,               \* per HTTP request task: position and locals
    watcher,           \* the watcher task: position and locals
    timer,             \* the watcher's interval and stop signal, and the runtime
    hist               \* history of what was issued, signed and returned

vars == <<now, events, event_nonces, event_types, parlay_contracts, audit,
          current_index, next_uuid, req, watcher, timer, hist>>

store == <<events, event_nonces, event_types, parlay_contracts, audit>>

-----------------------------------------------------------------------------
(* Bounds of the model *)

MaxEvents == 2      \* event ids drawn per run
MaxTime == 1        \* the clock runs 0..MaxTime
MaxDue == 2         \* ticks of the interval that may stay owed
MaxRestarts == 1    \* process restarts per run
RaceEvents == 1     \* events in the database the sign requests race on
MaxParameters == 2  \* parameters of a contract whose scores are combined

(* Program constants *)

SINGLE_NB_DIGITS == 20            \* events.rs: nb_digits of every single event
DEFAULT_MAX_NORMALIZED == 10000   \* oracle.rs: max_normalized_value.unwrap_or
I32_MAX == 2147483647             \* storage.rs: the largest `index as i32`

Requests == {"r1", "r2"}
EventIds == 1..MaxEvents
Maturities == 0..MaxTime

NULL == "null"
NoSig == <<>>

RECURSIVE Pow2(_)
Pow2(n) == IF n = 0 THEN 1 ELSE 2 * Pow2(n - 1)

Range(s) == {s[i] : i \in DOMAIN s}

Max(S) == CHOOSE x \in S : \A y \in S : y <= x

-----------------------------------------------------------------------------
(* EventType and its string form (strum lowercase) *)

\* the variants of EventType
EventTypes == {"Hashrate", "FeeRate", "BlockReward", "DifficultyAdjustment"}

\* a letter as it is written in the identifier
KeepLetter(c) == c

\* the lowercase form of a letter
LowercaseLetter(c) ==
    CASE c = "A" -> "a" [] c = "B" -> "b" [] c = "D" -> "d" [] c = "F" -> "f"
      [] c = "H" -> "h" [] c = "R" -> "r" [] OTHER -> c

RECURSIVE JoinLetters(_)
JoinLetters(s) == IF s = <<>> THEN "" ELSE Head(s) \o JoinLetters(Tail(s))

\* Display with serialize_all = "lowercase": the identifier in lowercase
EventTypeToString(value) ==
    LET \* the letters of the variant's identifier
        ident ==
            CASE value = "Hashrate" -> <<"H", "a", "s", "h", "r", "a", "t", "e">>
              [] value = "FeeRate" -> <<"F", "e", "e", "R", "a", "t", "e">>
              [] value = "BlockReward" ->
                    <<"B", "l", "o", "c", "k", "R", "e", "w", "a", "r", "d">>
              [] value = "DifficultyAdjustment" ->
                    <<"D", "i", "f", "f", "i", "c", "u", "l", "t", "y",
                      "A", "d", "j", "u", "s", "t", "m", "e", "n", "t">>
    IN JoinLetters([k \in DOMAIN ident |-> LowercaseLetter(ident[k])])

\* EventType::from_str(unit): the variant whose lowercase form is the string
\* given, matched exactly; an error for every other string
FromStr(unit) ==
    IF \E value \in EventTypes : EventTypeToString(value) = unit
    THEN [ok |-> TRUE, value |-> CHOOSE value \in EventTypes : EventTypeToString(value) = unit]
    ELSE [ok |-> FALSE, value |-> "VariantNotFound"]

\* every string taken for an event type
ParsesAnyUnit(unit) == TRUE

ParsesAsEventType(unit) == FromStr(unit).ok

\* impl From<EventType> for EventParams
EventParams(value) ==
    [event_type |-> value, nb_digits |-> SINGLE_NB_DIGITS, unit |-> EventTypeToString(value)]

\* what the stats source may answer when it answers (ceil of the measurement)
Samples == {3, 400000, 1048576}

-----------------------------------------------------------------------------
(* Rows and pure helpers of the store *)

\* SELECT ... FROM event_nonces WHERE event_id = $1 ORDER BY index
NonceIndexesOf(en, event_id) ==
    LET \* the elements of a set of integers that lie close together, ascending
        SortedRun(S) ==
            IF S = {} THEN <<>>
            ELSE LET lo == CHOOSE x \in S : \A y \in S : x <= y
                     hi == CHOOSE x \in S : \A y \in S : y <= x
                 IN SelectSeq([k \in 1..(hi - lo + 1) |-> lo + k - 1],
                              LAMBDA x : x \in S)
        rows == {i \in DOMAIN en : en[i].event_id = event_id}
    IN SortedRun({x \in rows : x < 0}) \o SortedRun({x \in rows : x >= 0})

\* the x-only public nonce derived from (xpriv, index)
NoncePoint(index) == index

\* the Schnorr signature of a digit label under the nonce of an index
SchnorrSign(index, label) == <<index, label>>

(* The counter and the indices it issues are u32, the column event_nonces.index
   is a 32-bit integer.  A u32 is written here as the i32 with the same 32
   bits, which is what `index as i32` binds and what `current_index as u32`
   reads back: v below 2^31 as v, v from 2^31 on as v - 2^32. *)

\* the order of the u32 values
U32Less(a, b) == IF (a < 0) = (b < 0) THEN a < b ELSE b < 0

\* u32 addition of 0 <= n < 2^31, wrapping around at 2^32
U32Add(a, n) ==
    IF a > I32_MAX - n THEN (a - I32_MAX - 1) + (n - I32_MAX - 1) ELSE a + n

\* the u32 addition passes 2^32 - 1
U32Carries(a, n) == a < 0 /\ a + n >= 0

\* PostgresStorage::new: COALESCE(MAX(index), 0) as u32 + 1
InitialIndexOffByOne(en) ==
    IF DOMAIN en = {} THEN 0 ELSE Max(DOMAIN en)

InitialIndex(en) ==
    U32Add(IF DOMAIN en = {} THEN 0 ELSE Max(DOMAIN en), 1)

\* AtomicU32::fetch_add(num), which wraps around: the value before, and the
\* counter after
FetchAddNoAdvance(cur, num) ==
    [ret |-> cur, new |-> cur + num - 1]

FetchAdd(cur, num) ==
    [ret |-> cur, new |-> U32Add(cur, num)]

\* get_next_nonce_indexes: the vector pushed from the fetched value, each
\* `current_index += 1` wrapping around
NextNonceIndexes(cur, num) ==
    [k \in 1..num |-> U32Add(FetchAdd(cur, num).ret, k - 1)]

\* one of the `current_index += 1` overflows: a panic where overflow is checked
NextNonceIndexesPanics(cur, num) == U32Carries(cur, num)

\* PostgresStorage::get_event
GetEvent(ev, en, event_id) ==
    IF event_id \notin DOMAIN ev
    THEN [found |-> FALSE, event_id |-> event_id, indexes |-> <<>>,
          signatures |-> <<>>, unit |-> "", nb_digits |-> 0,
          is_enum |-> FALSE, maturity |-> 0]
    ELSE LET idx == NonceIndexesOf(en, event_id)
             signed == SelectSeq(idx, LAMBDA i :
                          en[i].outcome # NULL /\ en[i].signature # NoSig)
         IN [found |-> TRUE, event_id |-> event_id, indexes |-> idx,
             signatures |-> [k \in 1..Len(signed) |->
                               <<en[signed[k]].outcome, en[signed[k]].signature>>],
             unit |-> ev[event_id].unit, nb_digits |-> ev[event_id].nb_digits,
             is_enum |-> ev[event_id].is_enum,
             maturity |-> ev[event_id].maturity]

-----------------------------------------------------------------------------
(* PostgresStorage::save_announcement: one transaction.  The statements are
   numbered 1 (INSERT INTO events), 2..n+1 (INSERT INTO event_nonces, one per
   zipped (index, nonce) pair) and n+2 (COMMIT).  `fault` names a statement
   that fails for a reason outside the store (0: none); a statement also fails
   when it violates a key constraint. *)

\* number of (index, nonce) pairs the zip yields
ZipLen(a, indexes) ==
    IF Len(indexes) <= Len(a.oracle_nonces) THEN Len(indexes)
    ELSE Len(a.oracle_nonces)

\* the tables as the transaction sees them after its first `done` statements
TxAfter(ev, en, a, indexes, done) ==
    LET EventRow(created_at) ==
            [maturity |-> a.maturity, unit |-> a.unit, nb_digits |-> a.nb_digits,
             is_enum |-> a.is_enum, base |-> a.base, is_signed |-> a.is_signed,
             created_at |-> created_at]
        NonceRow(index) ==
            [event_id |-> a.event_id, nonce |-> NoncePoint(index),
             outcome |-> NULL, signature |-> NoSig]
        k == IF done - 1 <= ZipLen(a, indexes) THEN done - 1
             ELSE ZipLen(a, indexes)
        ins == {indexes[j] : j \in 1..(IF k < 0 THEN 0 ELSE k)}
    IN [events |-> IF done >= 1
                   THEN ev @@ (a.event_id :>
                                  EventRow(Cardinality(DOMAIN ev) + 1))
                   ELSE ev,
        event_nonces |-> [i \in DOMAIN en \cup ins |->
                            IF i \in DOMAIN en THEN en[i]
                            ELSE NonceRow(i)]]

\* the first statement that fails, 0 when the transaction commits
FirstFailure(ev, en, a, indexes, fault) ==
    LET n == ZipLen(a, indexes)
        fails(s) ==
            \/ s = fault
            \/ s = 1 /\ a.event_id \in DOMAIN ev
            \/ s \in 2..(n + 1) /\
                  \/ indexes[s - 1] \in DOMAIN en
                  \/ \E j \in 1..(s - 2) : indexes[j] = indexes[s - 1]
        bad == {s \in 1..(n + 2) : fails(s)}
    IN IF bad = {} THEN 0 ELSE CHOOSE s \in bad : \A r \in bad : s <= r

SaveAnnouncementNoRollback(ev, en, a, indexes, fault) ==
    LET f == FirstFailure(ev, en, a, indexes, fault)
        t == TxAfter(ev, en, a, indexes,
                     IF f = 0 THEN ZipLen(a, indexes) + 1 ELSE f - 1)
    IN [ok |-> f = 0, events |-> t.events, event_nonces |-> t.event_nonces]

SaveAnnouncement(ev, en, a, indexes, fault) ==
    LET f == FirstFailure(ev, en, a, indexes, fault)
        t == TxAfter(ev, en, a, indexes, ZipLen(a, indexes) + 1)
    IN IF f = 0
       THEN [ok |-> TRUE, events |-> t.events, event_nonces |-> t.event_nonces]
       ELSE [ok |-> FALSE, events |-> ev, event_nonces |-> en]

\* the statements at which a fault is injected: none, the event insert, the
\* first and the last nonce insert, the commit
FaultPoints(n) == {0, 1, 2, n + 1, n + 2}

-----------------------------------------------------------------------------
(* PostgresStorage::save_signatures: one transaction.  Loads the event row and
   its nonce rows ordered by index, requires as many pairs as rows, and
   updates the rows in that order. *)

UpdateNoncesReversed(en, idx, signatures) ==
    [i \in DOMAIN en |->
        IF \E k \in 1..Len(idx) : idx[k] = i
        THEN LET k == CHOOSE k \in 1..Len(idx) : idx[k] = i
                 r == Len(idx) + 1 - k
             IN [en[i] EXCEPT !.outcome = signatures[r][1],
                              !.signature = signatures[k][2]]
        ELSE en[i]]

\* an UPDATE that is not restricted to the rows read for the event
UpdateNoncesAnyRow(en, idx, signatures) ==
    [i \in DOMAIN en |->
        IF Len(idx) > 0 /\ Len(signatures) > 0
        THEN [en[i] EXCEPT !.outcome = signatures[1][1],
                           !.signature = signatures[1][2]]
        ELSE en[i]]

UpdateNonces(en, idx, signatures) ==
    [i \in DOMAIN en |->
        IF \E k \in 1..Len(idx) : idx[k] = i
        THEN LET k == CHOOSE k \in 1..Len(idx) : idx[k] = i
             IN [en[i] EXCEPT !.outcome = signatures[k][1],
                              !.signature = signatures[k][2]]
        ELSE en[i]]

\* the same without the test of the lengths: zip stops at the shorter side
SaveSignaturesZip(ev, en, event_id, signatures, commit_ok) ==
    IF event_id \notin DOMAIN ev
    THEN [ok |-> FALSE, event_nonces |-> en]
    ELSE LET idx == NonceIndexesOf(en, event_id)
             n == IF Len(idx) <= Len(signatures) THEN Len(idx) ELSE Len(signatures)
         IN IF ~commit_ok
            THEN [ok |-> FALSE, event_nonces |-> en]
            ELSE [ok |-> TRUE,
                  event_nonces |-> UpdateNonces(en, SubSeq(idx, 1, n),
                                                SubSeq(signatures, 1, n))]

\* the same when the transaction is not rolled back on a failed commit
SaveSignaturesNoRollback(ev, en, event_id, signatures, commit_ok) ==
    IF event_id \notin DOMAIN ev
    THEN [ok |-> FALSE, event_nonces |-> en]
    ELSE LET idx == NonceIndexesOf(en, event_id)
         IN IF Len(idx) # Len(signatures)
            THEN [ok |-> FALSE, event_nonces |-> en]
            ELSE [ok |-> commit_ok, event_nonces |-> UpdateNonces(en, idx, signatures)]

SaveSignatures(ev, en, event_id, signatures, commit_ok) ==
    IF event_id \notin DOMAIN ev
    THEN [ok |-> FALSE, event_nonces |-> en]
    ELSE LET idx == NonceIndexesOf(en, event_id)
         IN IF Len(idx) # Len(signatures)
            THEN [ok |-> FALSE, event_nonces |-> en]
            ELSE IF ~commit_ok
            THEN [ok |-> FALSE, event_nonces |-> en]
            ELSE [ok |-> TRUE, event_nonces |-> UpdateNonces(en, idx, signatures)]

-----------------------------------------------------------------------------
(* ErnestOracle::get_matured_unsigned_event_ids_by_type *)

\* ORDER BY e.created_at ASC over a set of event ids
RECURSIVE OrderByCreatedAt(_, _)
OrderByCreatedAt(ev, S) ==
    IF S = {} THEN <<>>
    ELSE LET m == CHOOSE x \in S :
                     \A y \in S : ev[x].created_at <= ev[y].created_at
         IN <<m>> \o OrderByCreatedAt(ev, S \ {m})

\* event.event_maturity_epoch <= now
MaturedStrict(maturity, t) == maturity < t

MaturedAlways(maturity, t) == maturity <= t \/ maturity > t

Matured(maturity, t) == maturity <= t

GetMaturedUnsigned(ev, en, et, event_type, t) ==
    LET rows == {e \in DOMAIN ev :
                    /\ e \in DOMAIN et
                    /\ et[e] = event_type
                    /\ ~ \E i \in DOMAIN en :
                           en[i].event_id = e /\ en[i].signature # NoSig}
        ordered == OrderByCreatedAt(ev, rows)
    IN SelectSeq(ordered, LAMBDA e : Matured(ev[e].maturity, t))

-----------------------------------------------------------------------------
(* ParlayEngine.  A weight is written <<n, d>> for the double n / d; scores are
   doubles, computed as IEEE 754 binary64 computes them. *)

Frac(n, d) == <<n, d>>

\* number of binary digits of a natural number
RECURSIVE BitLen(_)
BitLen(v) == IF v = 0 THEN 0 ELSE 1 + BitLen(v \div 2)

\* calculate_oracle_parameters: ceil(log2(max_normalized_value)), 1 for 0
RECURSIVE CeilLog2(_)
CeilLog2(m) == IF m <= 1 THEN 0 ELSE 1 + CeilLog2((m + 1) \div 2)

CalculateOracleParameters(max_normalized_value) ==
    LET nb == IF max_normalized_value = 0 THEN 1 ELSE CeilLog2(max_normalized_value)
    IN [nb_digits |-> nb, oracle_max_value |-> Pow2(nb) - 1]

-----------------------------------------------------------------------------
(* f64 arithmetic.  A finite non-negative double is [m, e]: m the significand
   as binary digits, most significant first and starting with 1 (empty for
   0.0), e the power of two of its last digit.  Every operation rounds to
   nearest, ties to even, as the hardware does. *)

F64_MANTISSA == 53

\* digits are kept in groups of LIMB binary digits, so that every
\* intermediate number stays below 2^31
LIMB == 13
LimbBase == Pow2(LIMB)

\* the binary digits of a natural number, most significant first
RECURSIVE NatBits(_)
NatBits(n) == IF n = 0 THEN <<>> ELSE Append(NatBits(n \div 2), n % 2)

RECURSIVE BitsNat(_)
BitsNat(b) ==
    IF b = <<>> THEN 0 ELSE 2 * BitsNat(SubSeq(b, 1, Len(b) - 1)) + b[Len(b)]

\* without the leading zeros
TrimBits(b) ==
    IF \A k \in 1..Len(b) : b[k] = 0 THEN <<>>
    ELSE LET f == CHOOSE k \in 1..Len(b) :
                      b[k] = 1 /\ \A j \in 1..(k - 1) : b[j] = 0
         IN SubSeq(b, f, Len(b))

\* groups, most significant first, of binary digits and back
LimbsOfBits(b) ==
    LET n == (Len(b) + LIMB - 1) \div LIMB
        pad == n * LIMB - Len(b)
        pb == [k \in 1..(n * LIMB) |-> IF k <= pad THEN 0 ELSE b[k - pad]]
    IN [j \in 1..n |-> BitsNat(SubSeq(pb, LIMB * (j - 1) + 1, LIMB * j))]

BitsOfLimbs(l) ==
    [k \in 1..(LIMB * Len(l)) |->
        (l[(k - 1) \div LIMB + 1] \div Pow2(LIMB - 1 - ((k - 1) % LIMB))) % 2]

\* the sum of the products of the groups of a and b that meet at place k of
\* the product, the places counted from the least significant one
RECURSIVE Meet(_, _, _, _)
Meet(a, b, k, i) ==
    IF i > Len(a) THEN 0
    ELSE (IF k + 1 - i \in 1..Len(b)
          THEN a[Len(a) + 1 - i] * b[Len(b) - k + i] ELSE 0)
         + Meet(a, b, k, i + 1)

\* the groups of a * b: acc holds the lower places, carry what they left
RECURSIVE MulLimbs(_, _, _, _)
MulLimbs(a, b, carry, acc) ==
    IF Len(acc) = Len(a) + Len(b) THEN acc
    ELSE LET s == Meet(a, b, Len(acc) + 1, 1) + carry
         IN MulLimbs(a, b, s \div LimbBase, <<s % LimbBase>> \o acc)

\* round digits (the first one 1) followed by a sticky rest to the width of
\* the significand, ties to even; drop is the number of digits given up
RoundBits(b, sticky) ==
    IF Len(b) <= F64_MANTISSA THEN [m |-> b, drop |-> 0]
    ELSE LET \* digits (the first one 1) plus one
             IncBits(d) ==
                 IF \A k \in 1..Len(d) : d[k] = 1
                 THEN [k \in 1..(Len(d) + 1) |-> IF k = 1 THEN 1 ELSE 0]
                 ELSE LET z == CHOOSE k \in 1..Len(d) :
                                   d[k] = 0 /\ \A j \in (k + 1)..Len(d) : d[j] = 1
                      IN [k \in 1..Len(d) |->
                             IF k < z THEN d[k] ELSE IF k = z THEN 1 ELSE 0]
             keep == SubSeq(b, 1, F64_MANTISSA)
             rest == sticky = 1 \/ \E k \in (F64_MANTISSA + 2)..Len(b) : b[k] = 1
             up == b[F64_MANTISSA + 1] = 1 /\ (rest \/ keep[F64_MANTISSA] = 1)
             inc == IF up THEN IncBits(keep) ELSE keep
         IN IF Len(inc) > F64_MANTISSA
            THEN [m |-> SubSeq(inc, 1, F64_MANTISSA), drop |-> Len(b) - F64_MANTISSA + 1]
            ELSE [m |-> inc, drop |-> Len(b) - F64_MANTISSA]

\* a double: c is "num", "inf" or "nan", neg the sign; m and e as above for
\* "num" (a zero keeps its sign), empty and 0 otherwise
F64Num(neg, m, e) == [c |-> "num", neg |-> neg, m |-> m, e |-> e]

F64Zero == F64Num(FALSE, <<>>, 0)
F64One == F64Num(FALSE, <<1>>, 0)
F64Infinity == [c |-> "inf", neg |-> FALSE, m |-> <<>>, e |-> 0]
F64NegInfinity == [c |-> "inf", neg |-> TRUE, m |-> <<>>, e |-> 0]
F64NaN == [c |-> "nan", neg |-> FALSE, m |-> <<>>, e |-> 0]

F64IsZero(x) == x.c = "num" /\ x.m = <<>>

\* the result of an operation after rounding: from 2^1024 on it is an infinity
\* (no input of the model comes near the subnormal range)
F64Rounded(neg, m, e) ==
    IF m = <<>> THEN F64Num(neg, <<>>, 0)
    ELSE IF Len(m) + e > 1024
    THEN IF neg THEN F64NegInfinity ELSE F64Infinity
    ELSE F64Num(neg, m, e)

\* `n as f64` for a natural number below 2^31
F64FromNat(n) == F64Num(FALSE, NatBits(n), 0)

F64Mul(x, y) ==
    IF x.c = "nan" \/ y.c = "nan" THEN F64NaN
    ELSE IF x.c = "inf" \/ y.c = "inf"
    THEN IF F64IsZero(x) \/ F64IsZero(y) THEN F64NaN
         ELSE IF x.neg # y.neg THEN F64NegInfinity ELSE F64Infinity
    ELSE IF x.m = <<>> \/ y.m = <<>> THEN F64Num(x.neg # y.neg, <<>>, 0)
    ELSE LET product == BitsOfLimbs(MulLimbs(LimbsOfBits(x.m), LimbsOfBits(y.m),
                                             0, <<>>))
             r == RoundBits(TrimBits(product), 0)
         IN F64Rounded(x.neg # y.neg, r.m, x.e + y.e + r.drop)

\* long division of r / b, r < b < 2^17: DIV_LIMBS groups of the quotient
\* after the point, and whether a remainder is left
DIV_LIMBS == 7

RECURSIVE DivLimbs(_, _, _)
DivLimbs(r, b, acc) ==
    IF Len(acc) = DIV_LIMBS THEN [limbs |-> acc, sticky |-> IF r = 0 THEN 0 ELSE 1]
    ELSE DivLimbs((r * LimbBase) % b, b, Append(acc, (r * LimbBase) \div b))

\* (a as f64) / (b as f64) for naturals a < 2^31 and 0 < b < 2^17
F64Div(a, b) ==
    LET d == DivLimbs(a % b, b, <<>>)
        q == TrimBits(NatBits(a \div b) \o BitsOfLimbs(d.limbs))
        r == RoundBits(q, d.sticky)
    IN IF q = <<>> THEN F64Zero
       ELSE F64Num(FALSE, r.m, r.drop - LIMB * DIV_LIMBS)

\* long division of the groups l by b < 2^17, r the remainder so far
RECURSIVE DivGroups(_, _, _, _)
DivGroups(l, b, r, acc) ==
    IF Len(acc) = Len(l) THEN [limbs |-> acc, r |-> r]
    ELSE LET n == r * LimbBase + l[Len(acc) + 1]
         IN DivGroups(l, b, n % b, Append(acc, n \div b))

\* x / (b as f64) for a double x and a natural b < 2^17
F64Quot(x, b) ==
    IF x.c = "nan" THEN F64NaN
    ELSE IF b = 0
    THEN IF F64IsZero(x) THEN F64NaN
         ELSE IF x.neg THEN F64NegInfinity ELSE F64Infinity
    ELSE IF x.c = "inf" \/ x.m = <<>> THEN x
    ELSE LET i == DivGroups(LimbsOfBits(x.m), b, 0, <<>>)
             d == DivLimbs(i.r, b, <<>>)
             r == RoundBits(TrimBits(BitsOfLimbs(i.limbs) \o BitsOfLimbs(d.limbs)),
                            d.sticky)
         IN F64Rounded(x.neg, r.m, x.e + r.drop - LIMB * DIV_LIMBS)

\* |x| < |y| for two doubles that are not NaN
F64MagLess(x, y) ==
    IF y.c = "inf" THEN x.c # "inf"
    ELSE IF x.c = "inf" \/ y.m = <<>> THEN FALSE
    ELSE IF x.m = <<>> THEN TRUE
    ELSE LET hx == Len(x.m) + x.e
             hy == Len(y.m) + y.e
             n == IF Len(x.m) > Len(y.m) THEN Len(x.m) ELSE Len(y.m)
             px == [k \in 1..n |-> IF k <= Len(x.m) THEN x.m[k] ELSE 0]
             py == [k \in 1..n |-> IF k <= Len(y.m) THEN y.m[k] ELSE 0]
         IN IF hx # hy THEN hx < hy
            ELSE \E k \in 1..n : /\ px[k] < py[k]
                                 /\ \A j \in 1..(k - 1) : px[j] = py[j]

\* x < y: false when one side is NaN, and -0.0 is not below 0.0
F64Less(x, y) ==
    IF x.c = "nan" \/ y.c = "nan" THEN FALSE
    ELSE IF F64IsZero(x) /\ F64IsZero(y) THEN FALSE
    ELSE IF x.neg # y.neg THEN x.neg
    ELSE IF x.neg THEN F64MagLess(y, x)
    ELSE F64MagLess(x, y)

\* f64::min: a NaN on one side gives the other side
F64Min(x, y) ==
    IF x.c = "nan" THEN y
    ELSE IF y.c = "nan" THEN x
    ELSE IF F64Less(y, x) THEN y ELSE x

\* a + b + c modulo 2^n for two rows of n binary digits (c is 0 or 1): digit
\* k takes a carry when a lower place generates one and every place in
\* between passes it on
AddDigits(a, b, c) ==
    LET n == Len(a)
        carry(k) ==
            \/ \E j \in (k + 1)..n :
                  /\ a[j] = 1 /\ b[j] = 1
                  /\ \A i \in (k + 1)..(j - 1) : a[i] # b[i]
            \/ c = 1 /\ \A i \in (k + 1)..n : a[i] # b[i]
    IN [k \in 1..n |-> (a[k] + b[k] + (IF carry(k) THEN 1 ELSE 0)) % 2]

\* x + y
F64Add(x, y) ==
    IF x.c = "nan" \/ y.c = "nan" THEN F64NaN
    ELSE IF x.c = "inf"
    THEN IF y.c = "inf" /\ x.neg # y.neg THEN F64NaN ELSE x
    ELSE IF y.c = "inf" THEN y
    ELSE IF x.m = <<>> /\ y.m = <<>> THEN F64Num(x.neg /\ y.neg, <<>>, 0)
    ELSE IF x.m = <<>> THEN y
    ELSE IF y.m = <<>> THEN x
    ELSE IF (Len(x.m) + x.e) - (Len(y.m) + y.e) > F64_MANTISSA + 3 THEN x
    ELSE IF (Len(y.m) + y.e) - (Len(x.m) + x.e) > F64_MANTISSA + 3 THEN y
    ELSE LET e0 == IF x.e < y.e THEN x.e ELSE y.e
             lx == Len(x.m) + (x.e - e0)
             ly == Len(y.m) + (y.e - e0)
             n == (IF lx > ly THEN lx ELSE ly) + 1
             ax == [k \in 1..n |-> IF k <= n - lx \/ k > n - lx + Len(x.m) THEN 0
                                   ELSE x.m[k - (n - lx)]]
             ay == [k \in 1..n |-> IF k <= n - ly \/ k > n - ly + Len(y.m) THEN 0
                                   ELSE y.m[k - (n - ly)]]
             ny == [k \in 1..n |-> 1 - ay[k]]
             nx == [k \in 1..n |-> 1 - ax[k]]
         IN IF x.neg = y.neg
            THEN LET r == RoundBits(TrimBits(AddDigits(ax, ay, 0)), 0)
                 IN F64Rounded(x.neg, r.m, e0 + r.drop)
            ELSE IF F64MagLess(x, y)
            THEN LET r == RoundBits(TrimBits(AddDigits(ay, nx, 1)), 0)
                 IN F64Rounded(y.neg, r.m, e0 + r.drop)
            ELSE LET r == RoundBits(TrimBits(AddDigits(ax, ny, 1)), 0)
                 IN F64Rounded(x.neg /\ r.m # <<>>, r.m, e0 + r.drop)

-----------------------------------------------------------------------------
(* 64-bit integers at their full width: a word is its WORD binary digits, most
   significant first; a u64 reads them as a natural number, an i64 as two's
   complement. *)

WORD == 64

ZeroWord == [k \in 1..WORD |-> 0]

\* at most WORD digits, filled with zeros on the left
PadWord(b) ==
    [k \in 1..WORD |-> IF k <= WORD - Len(b) THEN 0 ELSE b[k - (WORD - Len(b))]]

\* the word of a natural number below 2^31
U64Word(n) == PadWord(NatBits(n))

NotWord(w) == [k \in 1..WORD |-> 1 - w[k]]

\* a - b modulo 2^64: a plus the complement of b plus 1
WrappingSub(a, b) == AddDigits(a, NotWord(b), 1)

NegWord(w) == WrappingSub(ZeroWord, w)

\* the word of an integer between -2^31 and 2^31
I64Word(v) == IF v >= 0 THEN U64Word(v) ELSE NegWord(U64Word(0 - v))

\* a <= b as i64
I64LessEq(a, b) ==
    IF a[1] # b[1] THEN a[1] = 1
    ELSE \/ a = b
         \/ \E k \in 1..WORD : a[k] < b[k] /\ \A j \in 1..(k - 1) : a[j] = b[j]

\* the number a word stands for, as u64 and as i64
U64Value(w) == BitsNat(TrimBits(w))
I64Value(w) == IF w[1] = 0 THEN U64Value(w) ELSE 0 - U64Value(NegWord(w))

\* `x as u64`: the integer part; 0 for NaN and for negative values, u64::MAX
\* from 2^64 on
F64Trunc(x) ==
    IF x.c = "nan" \/ x.neg \/ F64IsZero(x) THEN ZeroWord
    ELSE IF x.c = "inf" \/ Len(x.m) + x.e > WORD THEN [k \in 1..WORD |-> 1]
    ELSE IF Len(x.m) + x.e <= 0 THEN ZeroWord
    ELSE IF x.e >= 0 THEN PadWord(x.m \o [k \in 1..x.e |-> 0])
    ELSE PadWord(SubSeq(x.m, 1, Len(x.m) + x.e))

-----------------------------------------------------------------------------
\* ParlayParameter::normalize_parameter.  p.threshold is the word of the u64,
\* read as i64 by `self.threshold as i64`; value is the word of the sample;
\* the subtraction wraps where overflow is not checked.
NormalizeParameter(p, value) ==
    LET \* `w as f64` for an i64: the size is rounded, the sign kept
        F64FromI64(w) ==
            LET r == RoundBits(TrimBits(IF w[1] = 0 THEN w ELSE NegWord(w)), 0)
            IN IF r.m = <<>> THEN F64Zero ELSE F64Num(w[1] = 1, r.m, r.drop)
        t == p.threshold
        off == IF p.is_above_threshold THEN I64LessEq(value, t)
               ELSE I64LessEq(t, value)
        distance == IF p.is_above_threshold THEN WrappingSub(value, t)
                    ELSE WrappingSub(t, value)
    IN IF off THEN F64Zero
       ELSE F64Min(F64Quot(F64FromI64(distance), p.range), F64One)

\* the subtraction overflows: a panic where overflow is checked
NormalizeParameterPanics(p, value) ==
    LET \* a - b leaves the range of i64
        I64SubOverflows(a, b) == a[1] # b[1] /\ WrappingSub(a, b)[1] # a[1]
    IN
    IF p.is_above_threshold
    THEN ~I64LessEq(value, p.threshold) /\ I64SubOverflows(value, p.threshold)
    ELSE ~I64LessEq(p.threshold, value) /\ I64SubOverflows(p.threshold, value)

\* ParlayParameter::apply_transformation.  sqrt, exp and ln are taken at the
\* arguments where their value is exact: 0 and 1 for sqrt and ln (ln 0 is
\* -infinity), 0 for exp.
ApplyTransformation(p, n) ==
    LET one == n.c = "num" /\ ~F64Less(n, F64One) /\ ~F64Less(F64One, n)
    IN CASE p.transformation = "linear" -> n
         [] p.transformation = "quadratic" -> F64Mul(n, n)
         [] p.transformation = "sqrt" /\ (F64IsZero(n) \/ one) -> n
         [] p.transformation = "exponential" /\ F64IsZero(n) -> F64One
         [] p.transformation = "logarithmic" /\ F64IsZero(n) -> F64NegInfinity
         [] p.transformation = "logarithmic" /\ one -> F64Zero

\* Iterator::product, Iterator::sum and fold(acc, f64::min / f64::max) over
\* a slice of doubles, from the start value acc
RECURSIVE F64Fold(_, _, _)
F64Fold(op, acc, s) ==
    LET \* f64::max: a NaN on one side gives the other side
        F64Max(x, y) ==
            IF x.c = "nan" THEN y
            ELSE IF y.c = "nan" THEN x
            ELSE IF F64Less(x, y) THEN y ELSE x
        step(x, y) ==
            CASE op = "product" -> F64Mul(x, y)
              [] op = "sum" -> F64Add(x, y)
              [] op = "min" -> F64Min(x, y)
              [] op = "max" -> F64Max(x, y)
    IN IF s = <<>> THEN acc ELSE F64Fold(op, step(acc, Head(s)), Tail(s))

\* combine_scores: product(); the sum of the zipped products over
\* events.len(); fold(INFINITY, f64::min) unless empty; fold(0.0, f64::max)
CombineScores(scores, weights, method) ==
    LET \* events.iter().zip(weights).map(|(e, w)| e * w)
        n == IF Len(scores) <= Len(weights) THEN Len(scores) ELSE Len(weights)
        zipped == [k \in 1..n |-> F64Mul(scores[k], weights[k])]
    IN CASE method = "multiply" -> F64Fold("product", F64One, scores)
         [] method = "weighted_average" ->
               F64Quot(F64Fold("sum", F64Zero, zipped), Len(scores))
         [] method = "geometric_mean" /\ Len(scores) <= 1 ->
               \* product.powf(1.0 / events.len() as f64): 1.0 to the power
               \* of infinity is 1.0, and the power 1.0 returns its argument
               F64Fold("product", F64One, scores)
         [] method = "min" -> IF scores = <<>> THEN F64Zero
                              ELSE F64Fold("min", F64Infinity, scores)
         [] method = "max" -> F64Fold("max", F64Zero, scores)

\* convert_to_attestable_value: (combined_score * max as f64) as u64
ConvertToAttestableValue(combined, max_normalized_value) ==
    F64Trunc(F64Mul(combined, F64FromNat(max_normalized_value)))

\* the value attest_parlay_contract computes from the samples: for each
\* parameter score = transformed * weight, the scores combined and converted
\* (the call names no weights; the declared ones are passed)
AttestableValue(contract, values) ==
    LET n == Len(contract.parameters)
        \* the double of a declared weight
        Weight(p) == F64Div(p.weight[1], p.weight[2])
        \* the parameter with its threshold as a word
        Words(p) == [p EXCEPT !.threshold = U64Word(p.threshold)]
        Score(k) ==
            LET p == contract.parameters[k]
            IN F64Mul(ApplyTransformation(p,
                          NormalizeParameter(Words(p), I64Word(values[k]))),
                      Weight(p))
    IN ConvertToAttestableValue(
           CombineScores([k \in 1..n |-> Score(k)],
                         [k \in 1..n |-> Weight(contract.parameters[k])],
                         contract.combination_method),
           contract.max_normalized_value)

\* requests a client may send to POST /create {parlay}
HashrateAbove ==
    [data_type |-> "Hashrate", threshold |-> 5000, range |-> 100000,
     is_above_threshold |-> TRUE, transformation |-> "linear", weight |-> Frac(1, 1)]

ParlayInputs ==
    { [parameters |-> <<HashrateAbove>>, combination_method |-> "multiply",
       max_normalized_value |-> <<>>],
      [parameters |-> <<>>, combination_method |-> "multiply",
       max_normalized_value |-> <<>>] }

-----------------------------------------------------------------------------
(* kormir::Oracle, modelled from sections 4.D and 4.F of the specification *)

\* nb_digits-wide base-2 digits of a value, most significant first
RECURSIVE Bits(_, _)
Bits(value, n) ==
    IF n = 0 THEN <<>>
    ELSE Append(Bits(value \div 2, n - 1), IF value % 2 = 1 THEN "1" ELSE "0")

\* the same without the range test of step 3
KormirCheckNoRange(ev, en, event_id, outcome) ==
    LET data == GetEvent(ev, en, event_id)
    IN CASE ~data.found -> "not_found"
         [] data.is_enum -> "unsupported_descriptor"
         [] data.signatures # <<>> -> "already_signed"
         [] OTHER -> "ok"

\* the same without the already-signed test of step 3
KormirCheckNoSigned(ev, en, event_id, outcome) ==
    LET data == GetEvent(ev, en, event_id)
    IN CASE ~data.found -> "not_found"
         [] data.is_enum -> "unsupported_descriptor"
         [] outcome < 0 \/ outcome >= Pow2(data.nb_digits) -> "out_of_range"
         [] OTHER -> "ok"

\* 4.F steps 1-3: load, reject missing / enum / already signed / out of range
KormirCheck(ev, en, event_id, outcome) ==
    LET data == GetEvent(ev, en, event_id)
    IN CASE ~data.found -> "not_found"
         [] data.is_enum -> "unsupported_descriptor"
         [] data.signatures # <<>> -> "already_signed"
         [] outcome < 0 \/ outcome >= Pow2(data.nb_digits) -> "out_of_range"
         [] OTHER -> "ok"

\* 4.F step 4: one (digit_label, signature) pair per nonce, in index order
KormirSignatures(indexes, nb_digits, outcome) ==
    LET digits == Bits(outcome, nb_digits)
        n == IF Len(indexes) <= nb_digits THEN Len(indexes) ELSE nb_digits
    IN [k \in 1..n |-> <<digits[k], SchnorrSign(indexes[k], digits[k])>>]

\* the announcement built by create_numeric_event (4.D steps 1-2); the
\* callers pass IS_SIGNED, which is false (oracle.rs:23), and base 2
Announcement(event_id, nb_digits, unit, maturity, indexes) ==
    [event_id |-> event_id, maturity |-> maturity, unit |-> unit,
     nb_digits |-> nb_digits, is_enum |-> FALSE, base |-> 2,
     is_signed |-> FALSE,
     oracle_nonces |-> [k \in 1..Len(indexes) |-> NoncePoint(indexes[k])]]

-----------------------------------------------------------------------------
(* Tasks *)

\* the public key of the oracle's signing key
ORACLE_PUBLIC_KEY == "oracle_public_key"

\* no OracleAttestation in the reply
NoAttestation ==
    [event_id |-> 0, oracle_public_key |-> "", outcomes |-> <<>>, signatures |-> <<>>]

IdleReq ==
    [pc |-> "idle", op |-> "none", eid |-> 0, maturity |-> 0, unit |-> "",
     nb_digits |-> 0, indexes |-> <<>>, outcome |-> 0, res |-> "",
     attestation |-> NoAttestation,
     \* no ParlayContract in the reply
     contract |-> [id |-> 0, parameters |-> <<>>, combination_method |-> "",
                   max_normalized_value |-> 0]]

\* a handler that has returned: the reply stays until the task serves again
Reply(op, eid, res) ==
    [IdleReq EXCEPT !.pc = "done", !.op = op, !.eid = eid, !.res = res]

IdleWatcher ==
    [pc |-> "idle", list |-> <<>>, eid |-> 0, unit |-> "", outcome |-> 0,
     indexes |-> <<>>, nb_digits |-> 0, values |-> <<>>]

Free(t) == timer.up /\ req[t].pc \in {"idle", "done"}

EmptyTable == [x \in {} |-> 0]

\* tokio::time::interval: the first tick completes at once; no stop sent yet
\* and the process is up
InitTimer == [due |-> 1, stop |-> FALSE, up |-> TRUE]

InitHist ==
    [allocs |-> <<>>, epoch |-> 0,
     commits |-> [e \in EventIds |-> [n |-> 0, values |-> {}, last |-> 0]]]

\* a fresh database
InitEmpty ==
    /\ now = 0
    /\ events = EmptyTable
    /\ event_nonces = EmptyTable
    /\ event_types = EmptyTable
    /\ parlay_contracts = EmptyTable
    /\ audit = [outcome |-> {}, data |-> {}]
    /\ current_index = InitialIndex(EmptyTable)
    /\ next_uuid = 0
    /\ req = [t \in Requests |-> IdleReq]
    /\ watcher = IdleWatcher
    /\ hist = InitHist
    /\ timer = InitTimer

\* history: one allocator call returned `indexes`
RecordAlloc(indexes) ==
    [hist EXCEPT !.allocs = Append(@, [indexes |-> indexes, epoch |-> hist.epoch,
                                        persisted |-> Range(indexes) \cap DOMAIN event_nonces])]

\* history: one save_signatures committed for event_id
RecordCommit(event_id, outcome) ==
    [hist EXCEPT !.commits[event_id] =
        [n |-> @.n + 1, values |-> @.values \cup {outcome}, last |-> outcome]]

-----------------------------------------------------------------------------
(* POST /create {single}: ErnestOracle::create_event, Single arm *)

\* Uuid::new_v4, EventParams, then create_numeric_event up to the allocation.
\* `checked` tells whether the build checks arithmetic overflow
CreateSingleStart(t, event_type, maturity, checked) ==
    /\ Free(t)
    /\ next_uuid < MaxEvents
    /\ LET p == EventParams(event_type)
           idx == NextNonceIndexes(current_index, p.nb_digits)
       IN IF checked /\ NextNonceIndexesPanics(current_index, p.nb_digits)
          THEN /\ req' = [req EXCEPT ![t] = Reply("create_single", next_uuid + 1, "panic")]
               /\ UNCHANGED hist
          ELSE /\ req' = [req EXCEPT ![t] =
                          [IdleReq EXCEPT !.pc = "save", !.op = "create_single",
                                          !.eid = next_uuid + 1, !.maturity = maturity,
                                          !.unit = p.unit, !.nb_digits = p.nb_digits,
                                          !.indexes = idx]]
               /\ hist' = RecordAlloc(idx)
    /\ current_index' = FetchAdd(current_index, EventParams(event_type).nb_digits).new
    /\ next_uuid' = next_uuid + 1
    /\ UNCHANGED <<now, timer, store, watcher>>

\* ParlayContract::new: the contract row and its parameter rows, one transaction
SaveParlayContractLost(contracts, id, input, max) == contracts

SaveParlayContract(contracts, id, input, max) ==
    contracts @@ (id :> [id |-> id, parameters |-> input.parameters,
                         combination_method |-> input.combination_method,
                         max_normalized_value |-> max])

\* the guard of create_parlay_announcement: parameters.len() == 0
ParametersEmptyNever(parameters) == FALSE

ParametersEmpty(parameters) == Len(parameters) = 0

(* POST /create {parlay}: create_parlay_announcement up to ParlayContract::new *)
CreateParlayStart(t, input, maturity, commit_ok) ==
    /\ Free(t)
    /\ IF ParametersEmpty(input.parameters)
       THEN /\ req' = [req EXCEPT ![t] = Reply("create_parlay", 0, "invalid_param")]
            /\ UNCHANGED <<next_uuid, parlay_contracts>>
       ELSE /\ next_uuid < MaxEvents
            /\ next_uuid' = next_uuid + 1
            /\ LET max == IF input.max_normalized_value = <<>>
                          THEN DEFAULT_MAX_NORMALIZED
                          ELSE input.max_normalized_value[1]
                   id == next_uuid + 1
               IN IF commit_ok
                  THEN /\ parlay_contracts' =
                              SaveParlayContract(parlay_contracts, id, input, max)
                       /\ req' = [req EXCEPT ![t] =
                              [IdleReq EXCEPT !.pc = "alloc", !.op = "create_parlay",
                                  !.eid = id, !.maturity = maturity, !.unit = "parlay",
                                  !.nb_digits = CalculateOracleParameters(max).nb_digits]]
                  ELSE /\ req' = [req EXCEPT ![t] = Reply("create_parlay", id, "storage")]
                       /\ UNCHANGED parlay_contracts
    /\ UNCHANGED <<now, timer, events, event_nonces, event_types, audit, current_index,
                   watcher, hist>>

\* create_numeric_event for the parlay event: get_next_nonce_indexes
CreateParlayAlloc(t, checked) ==
    /\ req[t].pc = "alloc"
    /\ LET idx == NextNonceIndexes(current_index, req[t].nb_digits)
       IN IF checked /\ NextNonceIndexesPanics(current_index, req[t].nb_digits)
          THEN /\ req' = [req EXCEPT ![t] = Reply(req[t].op, req[t].eid, "panic")]
               /\ UNCHANGED hist
          ELSE /\ req' = [req EXCEPT ![t].pc = "save", ![t].indexes = idx]
               /\ hist' = RecordAlloc(idx)
    /\ current_index' = FetchAdd(current_index, req[t].nb_digits).new
    /\ UNCHANGED <<now, timer, store, next_uuid, watcher>>

\* create_numeric_event: save_announcement
CreateSave(t, fault) ==
    /\ req[t].pc = "save"
    /\ LET r == req[t]
           a == Announcement(r.eid, r.nb_digits, r.unit, r.maturity, r.indexes)
           s == SaveAnnouncement(events, event_nonces, a, r.indexes, fault)
       IN /\ events' = s.events
          /\ event_nonces' = s.event_nonces
          /\ req' = [req EXCEPT ![t] =
                       IF s.ok THEN [r EXCEPT !.pc = "tag"]
                       ELSE Reply(r.op, r.eid, "storage")]
    /\ UNCHANGED <<now, timer, event_types, parlay_contracts, audit, current_index,
                   next_uuid, watcher, hist>>

\* add_event_type_to_oracle_data
CreateTag(t, commit_ok) ==
    /\ req[t].pc = "tag"
    /\ LET r == req[t]
       IN IF commit_ok
          THEN /\ event_types' = event_types @@
                      (r.eid :> IF r.op = "create_single" THEN "single" ELSE "parlay")
               /\ req' = [req EXCEPT ![t] = Reply(r.op, r.eid, "ok")]
          ELSE /\ req' = [req EXCEPT ![t] = Reply(r.op, r.eid, "storage")]
               /\ UNCHANGED event_types
    /\ UNCHANGED <<now, timer, events, event_nonces, parlay_contracts, audit,
                   current_index, next_uuid, watcher, hist>>

-----------------------------------------------------------------------------
(* POST /sign-event: sign_event_internal *)

\* storage.get_event, then the descriptor match
SignStart(t, event_id, read_ok) ==
    /\ Free(t)
    /\ LET data == GetEvent(events, event_nonces, event_id)
       IN req' = [req EXCEPT ![t] =
             CASE ~read_ok -> Reply("sign", event_id, "storage")
               [] read_ok /\ ~data.found -> Reply("sign", event_id, "not_found")
               [] read_ok /\ data.found /\ data.is_enum ->
                      Reply("sign", event_id, "unsupported_descriptor")
               [] OTHER -> [IdleReq EXCEPT !.pc = "sample", !.op = "sign",
                                           !.eid = event_id, !.unit = data.unit]]
    /\ UNCHANGED <<now, timer, store, current_index, next_uuid, watcher, hist>>

\* EventType::outcome_from_str(unit, mempool)
SignSample(t, answered, value) ==
    /\ req[t].pc = "sample"
    /\ req' = [req EXCEPT ![t] =
          CASE ~ParsesAsEventType(req[t].unit) ->
                   Reply("sign", req[t].eid, "invalid_param")
            [] ParsesAsEventType(req[t].unit) /\ ~answered ->
                   Reply("sign", req[t].eid, "stats_source")
            [] OTHER -> [req[t] EXCEPT !.pc = "kget", !.outcome = value]]
    /\ UNCHANGED <<now, timer, store, current_index, next_uuid, watcher, hist>>

\* sign_numeric_event: load the event and check it (4.F steps 1-4)
SignKGet(t, read_ok) ==
    /\ req[t].pc = "kget"
    /\ LET r == req[t]
           c == KormirCheck(events, event_nonces, r.eid, r.outcome)
           data == GetEvent(events, event_nonces, r.eid)
       IN req' = [req EXCEPT ![t] =
             CASE ~read_ok -> Reply("sign", r.eid, "storage")
               [] read_ok /\ c # "ok" -> Reply("sign", r.eid, c)
               [] OTHER -> [r EXCEPT !.pc = "ksave", !.indexes = data.indexes,
                                     !.nb_digits = data.nb_digits]]
    /\ UNCHANGED <<now, timer, store, current_index, next_uuid, watcher, hist>>

\* sign_numeric_event: storage.save_signatures (4.F steps 5-6)
SignKSave(t, commit_ok) ==
    /\ req[t].pc = "ksave"
    /\ LET r == req[t]
           sigs == KormirSignatures(r.indexes, r.nb_digits, r.outcome)
           s == SaveSignatures(events, event_nonces, r.eid, sigs, commit_ok)
       IN /\ event_nonces' = s.event_nonces
          /\ req' = [req EXCEPT ![t] =
                IF s.ok THEN Reply("sign", r.eid, "ok")
                ELSE Reply("sign", r.eid, "storage")]
          /\ hist' = IF s.ok THEN RecordCommit(r.eid, r.outcome) ELSE hist
    /\ UNCHANGED <<now, timer, events, event_types, parlay_contracts, audit,
                   current_index, next_uuid, watcher>>

-----------------------------------------------------------------------------
(* GET /attestation: get_attestation_internal *)

\* the same without the test of event.signatures.is_empty()
GetAttestationUnchecked(ev, en, event_id, read_ok) ==
    LET data == GetEvent(ev, en, event_id)
    IN CASE ~read_ok -> [res |-> "storage", attestation |-> NoAttestation]
         [] read_ok /\ ~data.found -> [res |-> "not_found", attestation |-> NoAttestation]
         [] OTHER ->
              [res |-> "ok",
               attestation |->
                  [event_id |-> data.event_id,
                   oracle_public_key |-> ORACLE_PUBLIC_KEY,
                   outcomes |-> [k \in 1..Len(data.signatures) |-> data.signatures[k][1]],
                   signatures |-> [k \in 1..Len(data.signatures) |-> data.signatures[k][2]]]]

\* storage.get_event, "Could not find event.", "Event is not signed.", or the
\* OracleAttestation built from event.signatures
GetAttestationInternal(ev, en, event_id, read_ok) ==
    LET data == GetEvent(ev, en, event_id)
    IN CASE ~read_ok -> [res |-> "storage", attestation |-> NoAttestation]
         [] read_ok /\ ~data.found -> [res |-> "not_found", attestation |-> NoAttestation]
         [] read_ok /\ data.found /\ data.signatures = <<>> ->
              [res |-> "not_signed", attestation |-> NoAttestation]
         [] OTHER ->
              [res |-> "ok",
               attestation |->
                  [event_id |-> data.event_id,
                   oracle_public_key |-> ORACLE_PUBLIC_KEY,
                   outcomes |-> [k \in 1..Len(data.signatures) |-> data.signatures[k][1]],
                   signatures |-> [k \in 1..Len(data.signatures) |-> data.signatures[k][2]]]]

GetAttestation(t, event_id, read_ok) ==
    /\ Free(t)
    /\ LET r == GetAttestationInternal(events, event_nonces, event_id, read_ok)
       IN req' = [req EXCEPT ![t] =
             [Reply("get_attestation", event_id, r.res) EXCEPT
                 !.attestation = r.attestation]]
    /\ UNCHANGED <<now, timer, store, current_index, next_uuid, watcher, hist>>

-----------------------------------------------------------------------------
(* GET /parlay-contract: get_parlay_contract, contract_from_row *)

GetParlayContract(t, id, read_ok) ==
    LET \* `param.threshold as i64` of the column written: a u64 below 2^63
        \* keeps its value, one from 2^63 on wraps to value - 2^64
        CastU64ToI64(v) == IF BitLen(v) < 64 THEN v ELSE v - 2 * Pow2(63)
        \* `row as u64` of a stored i64
        CastI64ToU64(v) == IF v >= 0 THEN v ELSE v + 2 * Pow2(63)
        \* SELECT * FROM parlay_parameters WHERE contract_id = $1, without
        \* ORDER BY: the database chooses the order of the rows, so every
        \* order can come back
        SelectParameters(rows) ==
            LET n == Len(rows)
                perms == {p \in [1..n -> 1..n] :
                             \A a, b \in 1..n : a # b => p[a] # p[b]}
            IN {[k \in 1..n |-> rows[p[k]]] : p \in perms}
    IN
    /\ Free(t)
    /\ IF read_ok /\ id \in DOMAIN parlay_contracts
       THEN \E rows \in SelectParameters(parlay_contracts[id].parameters) :
              LET \* parlay_parameter_from_row over the columns
                  \* ParlayContract::new bound
                  ParameterFromRow(p) ==
                      [p EXCEPT
                          !.threshold = CastI64ToU64(CastU64ToI64(p.threshold)),
                          !.range = CastI64ToU64(CastU64ToI64(p.range))]
              IN
              req' = [req EXCEPT ![t] =
                 [Reply("get_parlay_contract", id, "ok") EXCEPT
                     !.contract =
                        [id |-> parlay_contracts[id].id,
                         parameters |-> [k \in 1..Len(rows) |-> ParameterFromRow(rows[k])],
                         combination_method |-> parlay_contracts[id].combination_method,
                         max_normalized_value |->
                            CastI64ToU64(CastU64ToI64(
                                parlay_contracts[id].max_normalized_value))]]]
       ELSE req' = [req EXCEPT ![t] = Reply("get_parlay_contract", id, "storage")]
    /\ UNCHANGED <<now, timer, store, current_index, next_uuid, watcher, hist>>

-----------------------------------------------------------------------------
(* The watcher: sign_matured_events_loop / sign_matured_events *)

\* sign_matured_events starts with sign_parlay_events:
\* get_matured_unsigned_event_ids_by_type("parlay").unwrap()
ListParlay(read_ok) ==
    IF read_ok
    THEN [IdleWatcher EXCEPT !.pc = "parlay_loop",
             !.list = GetMaturedUnsigned(events, event_nonces,
                                         event_types, "parlay", now)]
    ELSE [IdleWatcher EXCEPT !.pc = "panicked"]

\* timer.tick() fires, whenever that is, and a pass starts
WListParlay(read_ok) ==
    /\ timer.up
    /\ watcher.pc = "idle"
    /\ watcher' = ListParlay(read_ok)
    /\ UNCHANGED <<now, timer, store, current_index, next_uuid, req, hist>>

\* attest_parlay_contract: get_parlay_contract for the next listed event
WParlayContract(read_ok) ==
    /\ watcher.pc = "parlay_loop"
    /\ watcher.list # <<>>
    /\ LET id == Head(watcher.list)
       IN watcher' =
            IF read_ok /\ id \in DOMAIN parlay_contracts
            THEN [IdleWatcher EXCEPT !.pc = "p_sample", !.list = Tail(watcher.list),
                                     !.eid = id]
            ELSE [IdleWatcher EXCEPT !.pc = "parlay_loop", !.list = Tail(watcher.list)]
    /\ UNCHANGED <<now, timer, store, current_index, next_uuid, req, hist>>

\* attest_parlay_contract: EventType::outcome for the next parameter; after
\* the last one the scores are combined and converted
WParlaySample(answered, value) ==
    /\ watcher.pc = "p_sample"
    /\ LET c == parlay_contracts[watcher.eid]
           vals == Append(watcher.values, value)
       IN watcher' =
            IF ~answered
            THEN [IdleWatcher EXCEPT !.pc = "parlay_loop", !.list = watcher.list]
            ELSE IF Len(vals) < Len(c.parameters)
            THEN [watcher EXCEPT !.values = vals]
            ELSE [watcher EXCEPT !.pc = "p_kget", !.values = <<>>,
                                 !.outcome = I64Value(AttestableValue(c, vals))]
    /\ UNCHANGED <<now, timer, store, current_index, next_uuid, req, hist>>

\* sign_single_events: get_matured_unsigned_event_ids_by_type("single").unwrap()
WListSingle(read_ok) ==
    /\ watcher.pc = "parlay_loop"
    /\ watcher.list = <<>>
    /\ LET l == GetMaturedUnsigned(events, event_nonces, event_types, "single", now)
       IN watcher' = IF ~read_ok THEN [IdleWatcher EXCEPT !.pc = "panicked"]
                     ELSE IF l = <<>> THEN IdleWatcher
                     ELSE [IdleWatcher EXCEPT !.pc = "single_loop", !.list = l]
    /\ UNCHANGED <<now, timer, store, current_index, next_uuid, req, hist>>

\* sign_single_events: unit of the next listed event, outcome_from_str
WSingleSample(answered, value) ==
    /\ watcher.pc = "single_loop"
    /\ watcher.list # <<>>
    /\ LET id == Head(watcher.list)
           ev == events[id]
       IN watcher' =
            IF ev.is_enum
            THEN IF Tail(watcher.list) = <<>> THEN IdleWatcher
                 ELSE [watcher EXCEPT !.list = Tail(watcher.list)]
            ELSE IF ~ParsesAsEventType(ev.unit) \/ ~answered
            THEN IdleWatcher
            ELSE [IdleWatcher EXCEPT !.pc = "s_kget", !.list = Tail(watcher.list),
                                     !.eid = id, !.unit = ev.unit, !.outcome = value]
    /\ UNCHANGED <<now, timer, store, current_index, next_uuid, req, hist>>

\* sign_numeric_event: load the event and check it
WKGet(read_ok) ==
    /\ watcher.pc \in {"p_kget", "s_kget"}
    /\ LET w == watcher
           c == KormirCheck(events, event_nonces, w.eid, w.outcome)
           data == GetEvent(events, event_nonces, w.eid)
       IN watcher' =
            IF read_ok /\ c = "ok"
            THEN [w EXCEPT !.pc = IF w.pc = "p_kget" THEN "p_ksave" ELSE "s_ksave",
                           !.indexes = data.indexes, !.nb_digits = data.nb_digits]
            ELSE IF w.pc = "p_kget"
            THEN [IdleWatcher EXCEPT !.pc = "parlay_loop", !.list = w.list]
            ELSE IdleWatcher
    /\ UNCHANGED <<now, timer, store, current_index, next_uuid, req, hist>>

\* sign_numeric_event: storage.save_signatures
WKSave(commit_ok) ==
    /\ watcher.pc \in {"p_ksave", "s_ksave"}
    /\ LET w == watcher
           sigs == KormirSignatures(w.indexes, w.nb_digits, w.outcome)
           s == SaveSignatures(events, event_nonces, w.eid, sigs, commit_ok)
       IN /\ event_nonces' = s.event_nonces
          /\ hist' = IF s.ok THEN RecordCommit(w.eid, w.outcome) ELSE hist
          /\ watcher' =
               IF w.pc = "p_ksave"
               THEN [IdleWatcher EXCEPT !.pc = "parlay_loop", !.list = w.list]
               ELSE IF s.ok
               THEN [IdleWatcher EXCEPT !.pc = "s_audit", !.list = w.list, !.eid = w.eid,
                                        !.unit = w.unit, !.outcome = w.outcome]
               ELSE IdleWatcher
    /\ UNCHANGED <<now, timer, events, event_types, parlay_contracts, audit,
                   current_index, next_uuid, req>>

\* save_attestation_outcome
WAuditOutcome(commit_ok) ==
    /\ watcher.pc = "s_audit"
    /\ IF commit_ok
       THEN /\ audit' = [audit EXCEPT !.outcome = @ \cup
                            {[event_id |-> watcher.eid,
                              combined_score |-> watcher.outcome,
                              attested_value |-> watcher.outcome]}]
            /\ watcher' = [watcher EXCEPT !.pc = "s_audit_data"]
       ELSE /\ watcher' = IdleWatcher
            /\ UNCHANGED audit
    /\ UNCHANGED <<now, timer, events, event_nonces, event_types, parlay_contracts,
                   current_index, next_uuid, req, hist>>

\* save_attestation_data_outcome, then the pass returns (`return log::info!`)
\* whatever is left of the list
WAuditData(commit_ok) ==
    /\ watcher.pc = "s_audit_data"
    /\ audit' = IF commit_ok
                THEN [audit EXCEPT !.data = @ \cup
                        {[event_id |-> watcher.eid, data_type |-> watcher.unit,
                          normalized_value |-> watcher.outcome,
                          original_value |-> watcher.outcome]}]
                ELSE audit
    /\ watcher' = IdleWatcher
    /\ UNCHANGED <<now, timer, events, event_nonces, event_types, parlay_contracts,
                   current_index, next_uuid, req, hist>>

-----------------------------------------------------------------------------
(* sign_matured_events_loop with its interval and its stop signal *)

\* a deadline of the interval passes.  The interval keeps its default
\* MissedTickBehavior (Burst): every deadline that passed stays owed.  A loop
\* waiting in select! takes an owed tick long before the next deadline
TimerElapses ==
    /\ timer.up
    /\ timer.due < MaxDue
    /\ watcher.pc \notin {"exited", "panicked"}
    /\ watcher.pc = "idle" => timer.due = 0
    /\ timer' = [timer EXCEPT !.due = @ + 1]
    /\ UNCHANGED <<now, store, current_index, next_uuid, req, watcher, hist>>

\* shutdown_signal: Ctrl+C or SIGTERM arrives, stop_signal.send(true)
SendStop ==
    /\ timer.up
    /\ ~timer.stop
    /\ timer' = [timer EXCEPT !.stop = TRUE]
    /\ UNCHANGED <<now, store, current_index, next_uuid, req, watcher, hist>>

\* select! takes the branch timer.tick(): one owed tick is used up and a pass
\* starts.  When stop_signal.changed() is ready as well, select! picks either
LoopTick(read_ok) ==
    /\ timer.up
    /\ watcher.pc = "idle"
    /\ timer.due > 0
    /\ timer' = [timer EXCEPT !.due = @ - 1]
    /\ watcher' = ListParlay(read_ok)
    /\ UNCHANGED <<now, store, current_index, next_uuid, req, hist>>

\* select! takes the branch stop_signal.changed(): the value is true, break
LoopStop ==
    /\ watcher.pc = "idle"
    /\ timer.stop
    /\ watcher' = [IdleWatcher EXCEPT !.pc = "exited"]
    /\ UNCHANGED <<now, timer, store, current_index, next_uuid, req, hist>>

\* main: the graceful shutdown is over once no request is in flight, main
\* returns and the runtime is dropped; the spawned watcher task, which nobody
\* joins, is dropped with it at the await it stands at
RuntimeDrop ==
    /\ timer.stop
    /\ \A t \in Requests : Free(t)
    /\ timer' = [timer EXCEPT !.up = FALSE]
    /\ watcher' = IF watcher.pc \in {"exited", "panicked"} THEN watcher
                  ELSE [IdleWatcher EXCEPT !.pc = "cancelled"]
    /\ UNCHANGED <<now, store, current_index, next_uuid, req, hist>>

-----------------------------------------------------------------------------
(* Environment *)

AdvanceTime ==
    /\ now < MaxTime
    /\ now' = now + 1
    /\ UNCHANGED <<timer, store, current_index, next_uuid, req, watcher, hist>>

\* the process stops and starts again: PostgresStorage::new re-reads the
\* counter.  When its query fails (`?`) or its addition panics, main ends: no
\* PostgresStorage, no server, no watcher
Restart(read_ok, checked) ==
    /\ hist.epoch < MaxRestarts
    /\ IF read_ok /\ ~(checked /\
            \* `current_index as u32 + 1` overflows
            U32Carries(IF DOMAIN event_nonces = {} THEN 0
                       ELSE Max(DOMAIN event_nonces), 1))
       THEN /\ current_index' = InitialIndex(event_nonces)
            /\ timer' = InitTimer
       ELSE /\ timer' = [InitTimer EXCEPT !.up = FALSE]
            /\ UNCHANGED current_index
    /\ req' = [t \in Requests |-> IdleReq]
    /\ watcher' = IdleWatcher
    /\ hist' = [hist EXCEPT !.epoch = @ + 1]
    /\ UNCHANGED <<now, store, next_uuid>>

-----------------------------------------------------------------------------
(* A database left by an earlier lifetime of the oracle: events created one
   after the other through create_event, none signed yet. *)

EmptyStore ==
    [events |-> EmptyTable, event_nonces |-> EmptyTable, event_types |-> EmptyTable,
     parlay_contracts |-> EmptyTable, current_index |-> InitialIndex(EmptyTable)]

\* one complete create_event call on the store st
Created(st, kind, maturity) ==
    LET id == Cardinality(DOMAIN st.events) + 1
        input == CHOOSE i \in ParlayInputs : Len(i.parameters) > 0
        nb == IF kind = "single" THEN EventParams("Hashrate").nb_digits
              ELSE CalculateOracleParameters(DEFAULT_MAX_NORMALIZED).nb_digits
        unit == IF kind = "single" THEN EventParams("Hashrate").unit ELSE "parlay"
        idx == NextNonceIndexes(st.current_index, nb)
        s == SaveAnnouncement(st.events, st.event_nonces,
                              Announcement(id, nb, unit, maturity, idx), idx, 0)
    IN [events |-> s.events,
        event_nonces |-> s.event_nonces,
        event_types |-> st.event_types @@ (id :> kind),
        parlay_contracts |->
            IF kind = "parlay"
            THEN SaveParlayContract(st.parlay_contracts, id, input,
                                    DEFAULT_MAX_NORMALIZED)
            ELSE st.parlay_contracts,
        current_index |-> FetchAdd(st.current_index, nb).new]

RECURSIVE CreatedAll(_, _, _, _)
CreatedAll(st, kinds, maturities, k) ==
    IF k > Len(kinds) THEN st
    ELSE CreatedAll(Created(st, kinds[k], maturities[k]), kinds, maturities, k + 1)

\* the oracle starts over a database holding n events
InitOver(n) ==
    /\ now = 0
    /\ \E kinds \in [1..n -> {"single", "parlay"}],
          maturities \in [1..n -> Maturities] :
          LET st == CreatedAll(EmptyStore, kinds, maturities, 1)
          IN /\ events = st.events
             /\ event_nonces = st.event_nonces
             /\ event_types = st.event_types
             /\ parlay_contracts = st.parlay_contracts
             /\ current_index = InitialIndex(st.event_nonces)
    /\ audit = [outcome |-> {}, data |-> {}]
    /\ next_uuid = n
    /\ req = [t \in Requests |-> IdleReq]
    /\ watcher = IdleWatcher
    /\ hist = InitHist
    /\ timer = InitTimer

InitWatch == InitOver(MaxEvents)

-----------------------------------------------------------------------------
(* Specifications *)

CreateStep ==
    \/ \E t \in Requests, et \in EventTypes, m \in Maturities, checked \in BOOLEAN :
          CreateSingleStart(t, et, m, checked)
    \/ \E t \in Requests, i \in ParlayInputs, m \in Maturities, ok \in BOOLEAN :
          CreateParlayStart(t, i, m, ok)
    \/ \E t \in Requests, checked \in BOOLEAN : CreateParlayAlloc(t, checked)
    \/ \E t \in Requests : \E f \in FaultPoints(req[t].nb_digits) : CreateSave(t, f)
    \/ \E t \in Requests, ok \in BOOLEAN : CreateTag(t, ok)

SignStep ==
    \/ \E t \in Requests, e \in EventIds, ok \in BOOLEAN : SignStart(t, e, ok)
    \/ \E t \in Requests, ok \in BOOLEAN, v \in Samples : SignSample(t, ok, v)
    \/ \E t \in Requests, ok \in BOOLEAN : SignKGet(t, ok)
    \/ \E t \in Requests, ok \in BOOLEAN : SignKSave(t, ok)

WatcherStep ==
    \/ \E ok \in BOOLEAN : WListParlay(ok)
    \/ \E ok \in BOOLEAN : WParlayContract(ok)
    \/ \E ok \in BOOLEAN, v \in Samples : WParlaySample(ok, v)
    \/ \E ok \in BOOLEAN : WListSingle(ok)
    \/ \E ok \in BOOLEAN, v \in Samples : WSingleSample(ok, v)
    \/ \E ok \in BOOLEAN : WKGet(ok)
    \/ \E ok \in BOOLEAN : WKSave(ok)
    \/ \E ok \in BOOLEAN : WAuditOutcome(ok)
    \/ \E ok \in BOOLEAN : WAuditData(ok)

\* signing: the sign requests and the watcher over an existing database
Next == SignStep \/ WatcherStep \/ AdvanceTime

Spec == InitOver(RaceEvents) /\ [][Next]_vars

\* selection: the watcher alone over a database of several events
SpecWatch == InitWatch /\ [][WatcherStep \/ AdvanceTime]_vars

\* creation: concurrent creates on a fresh database, with restarts
NextCreate == CreateStep \/ \E ok, checked \in BOOLEAN : Restart(ok, checked)

SpecCreate == InitEmpty /\ [][NextCreate]_vars

\* reading: a client polls GET /attestation while the watcher signs
ReadClient == "r1"

\* the event ids a client may ask for: those of the database and one more
AskedIds == 1..(MaxEvents + 1)

NextRead ==
    \/ WatcherStep
    \/ AdvanceTime
    \/ \E e \in AskedIds, ok \in BOOLEAN : GetAttestation(ReadClient, e, ok)

SpecRead == InitWatch /\ [][NextRead]_vars

\* contracts: parlay creates of several bodies and a client reading them back
ContractInputs ==
    LET FeerateBelow ==
            [data_type |-> "FeeRate", threshold |-> 50, range |-> 100,
             is_above_threshold |-> FALSE, transformation |-> "quadratic",
             weight |-> Frac(1, 2)]
    IN
    { [parameters |-> <<HashrateAbove, FeerateBelow>>,
       combination_method |-> "multiply", max_normalized_value |-> <<>>],
      [parameters |-> <<HashrateAbove>>,
       combination_method |-> "max", max_normalized_value |-> <<8>>] }

\* the creates come from client r1, the reads from this one
ContractReader == "r2"

ContractStep ==
    \/ \E i \in ContractInputs, ok \in BOOLEAN :
          CreateParlayStart("r1", i, 0, ok)
    \/ \E checked \in BOOLEAN : CreateParlayAlloc("r1", checked)
    \/ \E f \in FaultPoints(req["r1"].nb_digits) : CreateSave("r1", f)
    \/ \E ok \in BOOLEAN : CreateTag("r1", ok)
    \/ \E e \in EventIds, ok \in BOOLEAN : GetParlayContract(ContractReader, e, ok)

SpecContract == InitEmpty /\ [][ContractStep]_vars

-----------------------------------------------------------------------------
(* Progress of the watcher: the Store is available and the StatsSource
   answers every call.  The fee statistic stays above what a 20-digit event
   can carry, the hashrate stays within it. *)

\* complete create_event calls, each for a single event of the given type
\* or for a parlay
RECURSIVE CreatedAllLive(_, _, _, _)
CreatedAllLive(st, kinds, maturities, k) ==
    LET CreatedLive(kind, maturity) ==
            IF kind = "parlay" THEN Created(st, "parlay", maturity)
            ELSE LET id == Cardinality(DOMAIN st.events) + 1
                     c == Created(st, "single", maturity)
                 IN [c EXCEPT !.events[id].unit = EventParams(kind).unit]
    IN IF k > Len(kinds) THEN st
       ELSE CreatedAllLive(CreatedLive(kinds[k], maturities[k]),
                           kinds, maturities, k + 1)

InitLive ==
    /\ now = 0
    /\ \E kinds \in [1..MaxEvents -> {"Hashrate", "FeeRate", "parlay"}],
          maturities \in [1..MaxEvents -> Maturities] :
          LET st == CreatedAllLive(EmptyStore, kinds, maturities, 1)
          IN /\ events = st.events
             /\ event_nonces = st.event_nonces
             /\ event_types = st.event_types
             /\ parlay_contracts = st.parlay_contracts
             /\ current_index = InitialIndex(st.event_nonces)
    /\ audit = [outcome |-> {}, data |-> {}]
    /\ next_uuid = MaxEvents
    /\ req = [t \in Requests |-> IdleReq]
    /\ watcher = IdleWatcher
    /\ hist = InitHist
    /\ timer = InitTimer

LiveStep ==
    LET \* EventType::outcome_from_str(unit): what a responsive source answers
        LiveSamples(unit) == IF unit = "feerate" THEN {1048576} ELSE {3, 400000}
    IN
    \/ WListParlay(TRUE)
    \/ WParlayContract(TRUE)
    \/ \E v \in LiveSamples("hashrate") : WParlaySample(TRUE, v)
    \/ WListSingle(TRUE)
    \/ /\ watcher.pc = "single_loop"
       /\ watcher.list # <<>>
       /\ \E v \in LiveSamples(events[Head(watcher.list)].unit) : WSingleSample(TRUE, v)
    \/ WKGet(TRUE)
    \/ WKSave(TRUE)
    \/ WAuditOutcome(TRUE)
    \/ WAuditData(TRUE)

NextLive == LiveStep \/ AdvanceTime

\* the timer keeps ticking and every started pass runs on; time passes.  The
\* first is weak fairness of LiveStep, with ENABLED <<LiveStep>>_vars written
\* as the guards of its disjuncts: a tick that can fire, or a pass under way
SpecLive ==
    /\ InitLive
    /\ [][NextLive]_vars
    /\ \/ []<>~(\/ timer.up /\ watcher.pc = "idle"
                \/ watcher.pc \in {"parlay_loop", "p_sample", "p_kget", "s_kget",
                                   "p_ksave", "s_ksave", "s_audit",
                                   "s_audit_data"}
                \/ watcher.pc = "single_loop" /\ watcher.list # <<>>)
       \/ []<><<LiveStep>>_vars
    /\ WF_vars(AdvanceTime)

-----------------------------------------------------------------------------
(* Attested values: one parlay event and one single event, both matured, the
   Store available and the StatsSource answering; the parlay contract, its
   scale and the samples vary. *)

\* one complete parlay create_event call with the given body
CreatedFrom(st, input, maturity) ==
    LET id == Cardinality(DOMAIN st.events) + 1
        max == IF input.max_normalized_value = <<>> THEN DEFAULT_MAX_NORMALIZED
               ELSE input.max_normalized_value[1]
        nb == CalculateOracleParameters(max).nb_digits
        idx == NextNonceIndexes(st.current_index, nb)
        s == SaveAnnouncement(st.events, st.event_nonces,
                              Announcement(id, nb, "parlay", maturity, idx), idx, 0)
    IN [events |-> s.events,
        event_nonces |-> s.event_nonces,
        event_types |-> st.event_types @@ (id :> "parlay"),
        parlay_contracts |-> SaveParlayContract(st.parlay_contracts, id, input, max),
        current_index |-> FetchAdd(st.current_index, nb).new]

\* the bodies of POST /create {parlay}: one ParlayParameter on the hashrate
\* with the transformation and weight given; max_normalized_value is None or
\* Some(m)
InitAttest ==
    /\ now = 0
    /\ \E tr \in {"linear", "quadratic"}, w \in {1, 2}, method \in {"multiply"},
          max \in {<<>>, <<0>>, <<1>>, <<8>>} :
          LET input ==
                  [parameters |->
                      <<[HashrateAbove EXCEPT !.transformation = tr,
                                              !.weight = Frac(w, 1)]>>,
                   combination_method |-> method,
                   max_normalized_value |-> max]
              st == Created(CreatedFrom(EmptyStore, input, 0), "single", 0)
          IN /\ events = st.events
             /\ event_nonces = st.event_nonces
             /\ event_types = st.event_types
             /\ parlay_contracts = st.parlay_contracts
             /\ current_index = InitialIndex(st.event_nonces)
    /\ audit = [outcome |-> {}, data |-> {}]
    /\ next_uuid = MaxEvents
    /\ req = [t \in Requests |-> IdleReq]
    /\ watcher = IdleWatcher
    /\ hist = InitHist
    /\ timer = InitTimer

\* commits explored per event (a 0-digit event is never seen as signed)
MaxCommits == 2

AttestStep ==
    LET \* the client that sends POST /sign-event here
        AttestClient == "r1"
        \* what the stats source answers, rounded up
        AttestSamples == {-3, 400000, 1048576}
        CommitsCapped == \A e \in EventIds : hist'.commits[e].n <= MaxCommits
    IN
    \/ \E e \in EventIds : SignStart(AttestClient, e, TRUE)
    \/ \E v \in AttestSamples : SignSample(AttestClient, TRUE, v)
    \/ SignKGet(AttestClient, TRUE)
    \/ SignKSave(AttestClient, TRUE) /\ CommitsCapped
    \/ WListParlay(TRUE)
    \/ WParlayContract(TRUE)
    \/ \E v \in AttestSamples : WParlaySample(TRUE, v)
    \/ WListSingle(TRUE)
    \/ \E v \in AttestSamples : WSingleSample(TRUE, v)
    \/ WKGet(TRUE)
    \/ WKSave(TRUE) /\ CommitsCapped
    \/ WAuditOutcome(TRUE)
    \/ WAuditData(TRUE)

SpecAttest == InitAttest /\ [][AttestStep]_vars

-----------------------------------------------------------------------------
(* The attested value as a function of the contract and the samples:
   attest_parlay_contract has read a multiply contract of linear parameters
   of weight 1 and taken every sample; the step left is the arithmetic. *)

\* the bodies of POST /create {parlay} have one or two such parameters; the
\* stats source answers below, at and above the threshold, and at and beyond
\* threshold + range
InitScale ==
    /\ now = 0
    /\ \E n \in {1, 2}, range \in {1000, 100000}, max \in {100, 10000} :
          LET input ==
                  [parameters |->
                      [k \in 1..n |-> [HashrateAbove EXCEPT !.range = range]],
                   combination_method |-> "multiply",
                   max_normalized_value |-> <<max>>]
              ScaleSamples == {4000, 5000, 5030, 10000, 105000, 400000}
              st == CreatedFrom(EmptyStore, input, 0)
          IN /\ events = st.events
             /\ event_nonces = st.event_nonces
             /\ event_types = st.event_types
             /\ parlay_contracts = st.parlay_contracts
             /\ current_index = InitialIndex(st.event_nonces)
             /\ \E vals \in [1..n -> ScaleSamples] :
                   watcher = [IdleWatcher EXCEPT !.pc = "p_sample", !.eid = 1,
                                                 !.values = vals]
    /\ audit = [outcome |-> {}, data |-> {}]
    /\ next_uuid = MaxEvents
    /\ req = [t \in Requests |-> IdleReq]
    /\ hist = InitHist
    /\ timer = InitTimer

\* attest_parlay_contract from combine_scores to `attestable_value as i64`
ScaleApply ==
    /\ watcher.pc = "p_sample"
    /\ Len(watcher.values) = Len(parlay_contracts[watcher.eid].parameters)
    /\ watcher' = [watcher EXCEPT
                      !.pc = "p_kget",
                      !.outcome = I64Value(AttestableValue(parlay_contracts[watcher.eid],
                                                           watcher.values))]
    /\ UNCHANGED <<now, timer, store, current_index, next_uuid, req, hist>>

SpecScale == InitScale /\ [][ScaleApply]_vars

-----------------------------------------------------------------------------
(* The watcher's loop: the interval, the stop signal and the end of main, over
   a database of several events; every call of a pass succeeds. *)

LoopStep ==
    \/ LoopTick(TRUE)
    \/ LoopStop
    \/ WParlayContract(TRUE)
    \/ \E v \in Samples : WParlaySample(TRUE, v)
    \/ WListSingle(TRUE)
    \/ \E v \in Samples : WSingleSample(TRUE, v)
    \/ WKGet(TRUE)
    \/ WKSave(TRUE)
    \/ WAuditOutcome(TRUE)
    \/ WAuditData(TRUE)

NextLoop == LoopStep \/ TimerElapses \/ SendStop \/ RuntimeDrop \/ AdvanceTime

SpecLoop == InitWatch /\ [][NextLoop]_vars

-----------------------------------------------------------------------------
(* Creates and restarts late in the life of the counter: the database holds
   one event, and the indices issued since (most of them by creates whose
   save failed) have brought the counter close to 2^31 or to 2^32. *)

SpecWrap ==
    /\ now = 0
    /\ \E kind \in {"single", "parlay"}, maturity \in Maturities :
          LET st == Created(EmptyStore, kind, maturity)
          IN /\ events = st.events
             /\ event_nonces = st.event_nonces
             /\ event_types = st.event_types
             /\ parlay_contracts = st.parlay_contracts
    \* the counter: 10 below 2^31, and 10 below 2^32
    /\ current_index \in {I32_MAX - 9, -10}
    /\ audit = [outcome |-> {}, data |-> {}]
    /\ next_uuid = 1
    /\ req = [t \in Requests |-> IdleReq]
    /\ watcher = IdleWatcher
    /\ hist = InitHist
    /\ timer = InitTimer
    /\ [][NextCreate]_vars

-----------------------------------------------------------------------------
(* Storage::save_signatures called with any event id and any list of
   (label, signature) pairs, over a database of several events. *)

\* the pairs a caller passes: n labels and their signatures
SignaturePairs(n, outcome) ==
    LET labels == Bits(outcome, n)
    IN [k \in 1..n |-> <<labels[k], SchnorrSign(k, labels[k])>>]

SaveCall(t, event_id, n, outcome, commit_ok) ==
    /\ Free(t)
    /\ LET s == SaveSignatures(events, event_nonces, event_id,
                               SignaturePairs(n, outcome), commit_ok)
       IN /\ event_nonces' = s.event_nonces
          /\ req' = [req EXCEPT ![t] =
                [Reply("save", event_id, IF s.ok THEN "ok" ELSE "storage")
                    EXCEPT !.nb_digits = n, !.outcome = outcome]]
    /\ UNCHANGED <<now, timer, events, event_types, parlay_contracts, audit,
                   current_index, next_uuid, watcher, hist>>

SaveClient == "r1"

\* lengths of the list: none, the digits of a parlay event and of a single
\* event, one less and one more
NextSave ==
    \E e \in AskedIds, n \in {0, 14, 19, 20, 21}, v \in {3, 400000},
       ok \in BOOLEAN :
        SaveCall(SaveClient, e, n, v, ok)

SpecSave == InitWatch /\ [][NextSave]_vars

-----------------------------------------------------------------------------
(* ParlayParameter::normalize_parameter over thresholds and samples of the
   whole width of u64 and i64, with and without overflow checks. *)

\* 2^63 as u64, i64::MIN as i64
HighWord == [k \in 1..WORD |-> IF k = 1 THEN 1 ELSE 0]

NormalizeSamples ==
    {I64Word(v) : v \in {-3, 0, 4000, 5000, 5001, 5500, 6000, 7000}}
        \cup {HighWord, NotWord(HighWord)}

\* the parameter and the sample of the call
NormalizeInput == req["r1"].contract.parameters[1]
NormalizeSample == watcher.values[1]

InitNormalize ==
    /\ now = 0
    /\ events = EmptyTable
    /\ event_nonces = EmptyTable
    /\ event_types = EmptyTable
    /\ parlay_contracts = EmptyTable
    /\ audit = [outcome |-> {}, data |-> {}]
    /\ current_index = InitialIndex(EmptyTable)
    /\ next_uuid = 0
    /\ \E t \in {U64Word(0), U64Word(5000), HighWord}, r \in {0, 1, 1000},
          above \in BOOLEAN :
          req = [c \in Requests |->
                   IF c # "r1" THEN IdleReq
                   ELSE [IdleReq EXCEPT !.contract.parameters =
                           <<[HashrateAbove EXCEPT !.threshold = t, !.range = r,
                                                   !.is_above_threshold = above]>>]]
    /\ \E v \in NormalizeSamples :
          watcher = [IdleWatcher EXCEPT !.pc = "p_sample", !.values = <<v>>]
    /\ hist = InitHist
    /\ timer = InitTimer

\* one call of normalize_parameter: the result, or the panic of the build
\* that checks overflow
NormalizeApply(checked) ==
    /\ watcher.pc = "p_sample"
    /\ watcher' =
          IF checked /\ NormalizeParameterPanics(NormalizeInput, NormalizeSample)
          THEN [watcher EXCEPT !.pc = "panicked"]
          ELSE [watcher EXCEPT
                   !.pc = "normalized",
                   !.outcome = NormalizeParameter(NormalizeInput, NormalizeSample)]
    /\ UNCHANGED <<now, timer, store, current_index, next_uuid, req, hist>>

SpecNormalize ==
    InitNormalize /\ [][\E checked \in BOOLEAN : NormalizeApply(checked)]_vars

-----------------------------------------------------------------------------
(* combine_scores and convert_to_attestable_value over the scores that
   attest_parlay_contract can compute: a transformed value in [0, 1], or
   -infinity (ln 0), times a weight, which is any double a client declares. *)

\* the contract of the call: each parameter with its transformed value
CombineContract == req["r1"].contract

InitCombine ==
    /\ now = 0
    /\ events = EmptyTable
    /\ event_nonces = EmptyTable
    /\ event_types = EmptyTable
    /\ parlay_contracts = EmptyTable
    /\ audit = [outcome |-> {}, data |-> {}]
    /\ current_index = InitialIndex(EmptyTable)
    /\ next_uuid = 0
    /\ hist = InitHist
    /\ timer = InitTimer
    /\ LET \* transformed values: 0, 1/2, 1, ln 0
           CombineTransformed ==
               {F64Zero, F64Num(FALSE, <<1>>, -1), F64One, F64NegInfinity}
           \* declared weights: 1, 1/2, 2, 0, -1, 2^50, 2^1020
           CombineWeights ==
               {F64One, F64Num(FALSE, <<1>>, -1), F64Num(FALSE, <<1>>, 1),
                F64Zero, F64Num(TRUE, <<1>>, 0), F64Num(FALSE, <<1>>, 50),
                F64Num(FALSE, <<1>>, 1020)}
           CombineMethods ==
               {"multiply", "weighted_average", "geometric_mean", "min", "max"}
           \* score = transformed_value * parameter.weight
           CombineScoresOf(parameters) ==
               [k \in 1..Len(parameters) |->
                   F64Mul(parameters[k].transformed, parameters[k].weight)]
       IN
       \E n \in 0..MaxParameters, method \in CombineMethods :
       \* the root of order two of a product is left out
       /\ method = "geometric_mean" => n <= 1
       /\ \E parameters \in [1..n -> [transformed : CombineTransformed,
                                    weight : CombineWeights]] :
         \E passed \in {[k \in 1..n |-> parameters[k].weight], <<>>} :
          /\ req = [c \in Requests |->
                      IF c # "r1" THEN IdleReq
                      ELSE [IdleReq EXCEPT
                              !.contract.parameters = parameters,
                              !.contract.combination_method = method,
                              !.contract.max_normalized_value =
                                  DEFAULT_MAX_NORMALIZED]]
          /\ watcher = [IdleWatcher EXCEPT !.pc = "p_sample",
                                           !.values = CombineScoresOf(parameters),
                                           !.list = passed]

\* combine_scores(&scores, weights, &contract.combination_method): the
\* combined score is kept in outcome
CombineApply ==
    /\ watcher.pc = "p_sample"
    /\ watcher' = [watcher EXCEPT
                      !.pc = "p_combined",
                      !.outcome = CombineScores(watcher.values, watcher.list,
                                                CombineContract.combination_method)]
    /\ UNCHANGED <<now, timer, store, current_index, next_uuid, req, hist>>

\* convert_to_attestable_value(combined_score, max_normalized_value): the u64
\* is kept in indexes
ConvertApply ==
    /\ watcher.pc = "p_combined"
    /\ watcher' = [watcher EXCEPT
                      !.pc = "p_kget",
                      !.indexes = ConvertToAttestableValue(
                                      watcher.outcome,
                                      CombineContract.max_normalized_value)]
    /\ UNCHANGED <<now, timer, store, current_index, next_uuid, req, hist>>

NextCombine == CombineApply \/ ConvertApply

SpecCombine == InitCombine /\ [][NextCombine]_vars


-----------------------------------------------------------------------------
(* Properties *)

Signed(en, e) == \E i \in DOMAIN en : en[i].event_id = e /\ en[i].signature # NoSig

\* the outcome labels of an event's nonce rows in ascending index order
Labels(en, e) ==
    LET idx == NonceIndexesOf(en, e)
    IN [k \in 1..Len(idx) |-> en[idx[k]].outcome]

\* the integer a sequence of base-2 labels spells, most significant first
RECURSIVE LabelsValue(_)
LabelsValue(labels) ==
    IF labels = <<>> THEN 0
    ELSE LET n == Len(labels)
         IN 2 * LabelsValue(SubSeq(labels, 1, n - 1))
              + (IF labels[n] = "1" THEN 1 ELSE 0)

SignReplies(t) == req[t].pc = "done" /\ req[t].op = "sign"

\* C1: no nonce of any event is ever used to sign two different digit labels:
\* over all the attestations committed for one event, each nonce position
\* carries one label only.
NonceSignsOneLabel ==
    \A e \in DOMAIN events :
        \A k \in 1..events[e].nb_digits :
            Cardinality({Bits(v, events[e].nb_digits)[k] :
                            v \in hist.commits[e].values}) <= 1

\* C2: of two sign operations on the same event, at most one returns an
\* attestation (the other one is told the event is already signed).
OneSignerWins ==
    \A t1, t2 \in Requests :
        (t1 # t2 /\ SignReplies(t1) /\ SignReplies(t2) /\ req[t1].eid = req[t2].eid)
            => ~(req[t1].res = "ok" /\ req[t2].res = "ok")

\* C3: save_signatures on an event that already holds a signature fails and
\* changes no row, so at most one save_signatures call ever commits per event.
AtMostOneCommit ==
    \A e \in EventIds : hist.commits[e].n <= 1

Consecutive(indexes) ==
    \A k \in 1..Len(indexes) : indexes[k] = indexes[1] + k - 1

SignedRowsImmutable ==
    [][/\ \A i \in DOMAIN event_nonces :
             (event_nonces[i].outcome = NULL) <=> (event_nonces[i].signature = NoSig)
       /\ \A i \in DOMAIN event_nonces :
             event_nonces[i].signature # NoSig => event_nonces'[i] = event_nonces[i]]_vars

\* C7: a signed event has as many signed rows as rows and as nb_digits, every
\* label is "0" or "1", and the labels in ascending index order spell, most
\* significant digit first, the integer that was signed.
SignedLabelsSpellOutcome ==
    \A e \in DOMAIN events :
        Signed(event_nonces, e) =>
            LET idx == NonceIndexesOf(event_nonces, e)
                labels == Labels(event_nonces, e)
            IN /\ Len(idx) = events[e].nb_digits
               /\ \A k \in 1..Len(idx) :
                     /\ event_nonces[idx[k]].signature # NoSig
                     /\ labels[k] \in {"0", "1"}
               /\ LabelsValue(labels) = hist.commits[e].last

SignedLabelsSpellOutcomeSeen ==
    \E e \in DOMAIN events :
        /\ Signed(event_nonces, e)
        /\ hist.commits[e].last = 400000
        /\ Labels(event_nonces, e) =
              <<"0", "1", "1", "0", "0", "0", "0", "1", "1", "0",
                "1", "0", "1", "0", "0", "0", "0", "0", "0", "0">>

\* C8: get_matured_unsigned_event_ids_by_type(t) at time now returns exactly
\* the events tagged t whose maturity is <= now and that have no signed nonce,
\* in ascending created_at order.
MaturedUnsignedExact ==
    \A ty \in {"single", "parlay"} :
        LET l == GetMaturedUnsigned(events, event_nonces, event_types, ty, now)
        IN /\ Range(l) = {e \in DOMAIN events :
                             /\ e \in DOMAIN event_types
                             /\ event_types[e] = ty
                             /\ events[e].maturity <= now
                             /\ ~Signed(event_nonces, e)}
           /\ \A j, k \in 1..Len(l) :
                 j < k => events[l[j]].created_at < events[l[k]].created_at

MaturedUnsignedExactSeen ==
    \E e1, e2 \in DOMAIN events :
        /\ events[e1].maturity = now
        /\ watcher.pc = "single_loop"
        /\ watcher.list = <<e1>>
        /\ event_types[e2] = "single"
        /\ Signed(event_nonces, e2)

\* C9 as stated: no operation writes signatures for an event before its
\* maturity epoch.
NeverSignedBeforeMaturity ==
    \A e \in DOMAIN events :
        Signed(event_nonces, e) => events[e].maturity <= now

\* C9 amended: the watcher (single and parlay attestation) never writes
\* signatures for an event before its maturity epoch; POST /sign-event signs
\* whatever the maturity is.
WatcherSignsMaturedOnly ==
    [][(watcher.pc \in {"p_ksave", "s_ksave"} /\ event_nonces' # event_nonces
           /\ watcher' # watcher)
         => events[watcher.eid].maturity <= now]_vars

WatcherSignsMaturedOnlySeen ==
    /\ watcher.pc = "s_audit"
    /\ Signed(event_nonces, watcher.eid)
    /\ events[watcher.eid].maturity = now
    /\ now > 0

\* C10: save_announcement is atomic: on success the store gains exactly the
\* event row and one nonce row per allocated index, nonce set, outcome and
\* signature null; on failure it returns a storage error and the store holds
\* neither the event row nor any of its nonce rows.
SaveAnnouncementAtomic ==
    [][\A t \in Requests :
          (req[t].pc = "save" /\ req'[t] # req[t] /\ hist'.epoch = hist.epoch) =>
             LET r == req[t]
             IN \/ /\ req'[t].pc = "tag"
                   /\ r.eid \notin DOMAIN events
                   /\ DOMAIN events' = DOMAIN events \cup {r.eid}
                   /\ \A e \in DOMAIN events : events'[e] = events[e]
                   /\ DOMAIN event_nonces' = DOMAIN event_nonces \cup Range(r.indexes)
                   /\ Range(r.indexes) \cap DOMAIN event_nonces = {}
                   /\ Cardinality(Range(r.indexes)) = r.nb_digits
                   /\ \A i \in DOMAIN event_nonces : event_nonces'[i] = event_nonces[i]
                   /\ \A i \in Range(r.indexes) :
                         event_nonces'[i] = [event_id |-> r.eid, nonce |-> NoncePoint(i),
                                             outcome |-> NULL, signature |-> NoSig]
                \/ /\ req'[t].pc = "done"
                   /\ req'[t].res = "storage"
                   /\ r.eid \notin DOMAIN events'
                   /\ \A i \in DOMAIN event_nonces' : event_nonces'[i].event_id # r.eid
                   /\ events' = events
                   /\ event_nonces' = event_nonces]_vars

SaveAnnouncementAtomicSeen ==
    \E t \in Requests :
        /\ req[t].pc = "done" /\ req[t].op = "create_single" /\ req[t].res = "storage"
        /\ req[t].eid \notin DOMAIN events
        /\ \A i \in DOMAIN event_nonces : event_nonces[i].event_id # req[t].eid
        /\ \E e \in DOMAIN events : Len(NonceIndexesOf(event_nonces, e)) = SINGLE_NB_DIGITS

\* a single event whose statistic fits its digits, or a parlay event
Signable(e) == events[e].unit # "feerate"

\* C11: with the Store available and the StatsSource responsive, every tagged
\* matured unsigned event that can be signed is eventually signed by the
\* watcher, also when an older matured event keeps failing to sign.
MaturedEventuallySigned ==
    \A e \in EventIds :
        (/\ e \in DOMAIN event_types
         /\ Matured(events[e].maturity, now)
         /\ ~Signed(event_nonces, e)
         /\ Signable(e)) ~> Signed(event_nonces, e)

\* the listed events still to attempt once the current one is dealt with
Remaining(w) ==
    IF w.pc \in {"single_loop", "parlay_loop"} THEN Tail(w.list) ELSE w.list

\* the watcher's step gives up on the current event: no sample, or no signature
GivesUp ==
    /\ watcher' # watcher
    /\ \/ watcher.pc = "single_loop" /\ watcher.list # <<>> /\ watcher'.pc # "s_kget"
       \/ watcher.pc = "s_kget" /\ watcher'.pc # "s_ksave"
       \/ watcher.pc = "s_ksave" /\ event_nonces' = event_nonces
       \/ watcher.pc = "parlay_loop" /\ watcher.list # <<>> /\ watcher'.pc # "p_sample"
       \/ watcher.pc = "p_sample" /\ watcher'.pc \notin {"p_sample", "p_kget"}
       \/ watcher.pc = "p_kget" /\ watcher'.pc # "p_ksave"
       \/ watcher.pc = "p_ksave" /\ event_nonces' = event_nonces

\* C12: within one tick, after a failure to sample or to sign one matured
\* event the watcher goes on with the remaining events it selected, in the
\* single pass as in the parlay pass.
WatcherGoesOnAfterFailure ==
    [][(GivesUp /\ Remaining(watcher) # <<>>) =>
          /\ watcher'.pc = (IF watcher.pc \in {"single_loop", "s_kget", "s_ksave"}
                            THEN "single_loop" ELSE "parlay_loop")
          /\ watcher'.list = Remaining(watcher)]_vars

\* C13: a Store failure while the watcher lists matured unsigned events does
\* not end the watcher: its loop keeps running and later ticks still select
\* and sign.
WatcherNeverEnds == watcher.pc # "panicked"

\* C14 as stated: in every reachable state a parlay_contracts row with id X
\* exists if and only if an event X exists and is tagged "parlay".
ContractIffTaggedParlay ==
    \A x \in EventIds :
        x \in DOMAIN parlay_contracts <=>
            (x \in DOMAIN events /\ x \in DOMAIN event_types /\ event_types[x] = "parlay")

\* C14 amended: every event tagged "parlay" exists and has its
\* parlay_contracts row; a contract row may exist without the event or the tag.
TaggedParlayHasContract ==
    \A x \in DOMAIN event_types :
        event_types[x] = "parlay" =>
            x \in DOMAIN events /\ x \in DOMAIN parlay_contracts

TaggedParlayHasContractSeen ==
    /\ \E x \in DOMAIN event_types : event_types[x] = "parlay"
    /\ \E t \in Requests :
          /\ req[t].pc = "done" /\ req[t].op = "create_parlay" /\ req[t].res = "storage"
          /\ req[t].eid \in DOMAIN parlay_contracts
          /\ req[t].eid \notin DOMAIN events

\* C15: a parlay create commits the contract row with its parameters before
\* the announcement is persisted: every persisted event of the parlay path has
\* its contract row, whatever a reader or the watcher looks at and whenever.
ParlayEventHasContract ==
    /\ \A e \in DOMAIN events :
          events[e].unit = "parlay" =>
              /\ e \in DOMAIN parlay_contracts
              /\ Len(parlay_contracts[e].parameters) > 0
    /\ \A t \in Requests :
          (req[t].op = "create_parlay" /\ req[t].pc \in {"alloc", "save", "tag"})
              => req[t].eid \in DOMAIN parlay_contracts

ParlayEventHasContractSeen ==
    \E t \in Requests :
        /\ req[t].op = "create_parlay" /\ req[t].pc = "tag"
        /\ req[t].eid \in DOMAIN events
        /\ req[t].eid \notin DOMAIN event_types
        /\ req[t].eid \in DOMAIN parlay_contracts

\* C16: the integer attest_parlay_contract passes to the Attester lies in
\* [0, max_normalized_value] of the contract and in [0, 2^nb_digits - 1] of
\* the event created for it
AttestableWithinScale ==
    watcher.pc = "p_kget" =>
        /\ 0 <= watcher.outcome
        /\ watcher.outcome <= parlay_contracts[watcher.eid].max_normalized_value
        /\ watcher.outcome <= Pow2(events[watcher.eid].nb_digits) - 1

\* C17: for every max_normalized_value m of a contract,
\* calculate_oracle_parameters(m) returns nb_digits = max(1, ceil(log2 m)),
\* the least n >= 1 with 2^n >= m, never 0, and oracle_max_value = 2^nb_digits - 1
OracleParametersAsSpecified ==
    \A x \in DOMAIN parlay_contracts :
        LET m == parlay_contracts[x].max_normalized_value
            p == CalculateOracleParameters(m)
        IN /\ p.nb_digits >= 1
           /\ Pow2(p.nb_digits) >= m
           /\ p.nb_digits = 1 \/ Pow2(p.nb_digits - 1) < m
           /\ p.oracle_max_value = Pow2(p.nb_digits) - 1

\* C18: a parlay create request with an empty parameter list is rejected with
\* an error and leaves everything unchanged: no contract row, event row, nonce
\* row or type tag is written and no nonce index is taken from the allocator
EmptyParlayRejected ==
    [][\A t \in Requests, i \in ParlayInputs, m \in Maturities, ok \in BOOLEAN :
          (Len(i.parameters) = 0 /\ CreateParlayStart(t, i, m, ok)) =>
              /\ req'[t].pc = "done"
              /\ req'[t].res = "invalid_param"
              /\ UNCHANGED <<store, current_index, next_uuid>>
              /\ hist'.allocs = hist.allocs]_vars

EmptyParlayRejectedSeen ==
    \E t \in Requests :
        /\ req[t].pc = "done"
        /\ req[t].op = "create_parlay"
        /\ req[t].res = "invalid_param"
        /\ next_uuid > 0

\* an outcome the digits of the event cannot carry
OutOfRange(e, outcome) == outcome < 0 \/ outcome >= Pow2(events[e].nb_digits)

Refused(r) == r.pc = "done" /\ r.op = "sign" /\ r.res # "ok"

\* C20: a sign request for an unknown event_id, for an enum descriptor, or for
\* an event that already has a committed attestation returns an error and
\* leaves the stored outcomes and signatures of every event as they were; an
\* attested event stays attested, so one attested when the request arrives is
\* still attested when sign_numeric_event loads it
SignRefusedChangesNothing ==
    [][/\ \A t \in Requests :
            /\ (/\ Free(t)
                /\ req'[t] # req[t]
                /\ req'[t].op = "sign"
                /\ \/ req'[t].eid \notin DOMAIN events
                   \/ req'[t].eid \in DOMAIN events /\ events[req'[t].eid].is_enum) =>
                    Refused(req'[t]) /\ UNCHANGED store
            /\ (/\ req[t].pc = "kget"
                /\ req'[t] # req[t]
                /\ Signed(event_nonces, req[t].eid)) =>
                    Refused(req'[t]) /\ UNCHANGED store
       /\ \A e \in DOMAIN events :
            Signed(event_nonces, e) => Signed(event_nonces', e)]_vars

SignRefusedChangesNothingSeen ==
    \E t, u \in Requests :
        /\ Refused(req[t]) /\ req[t].res = "not_found"
        /\ Refused(req[u]) /\ req[u].res = "already_signed"
        /\ Signed(event_nonces, req[u].eid)

\* a step of the watcher that ends an attempt without a committed attestation
WatcherAttemptFails ==
    /\ watcher' # watcher
    /\ \/ watcher.pc = "single_loop" /\ watcher'.pc # "s_kget"
       \/ watcher.pc = "s_kget" /\ watcher'.pc # "s_ksave"
       \/ watcher.pc = "parlay_loop" /\ watcher.list # <<>> /\ watcher'.pc # "p_sample"
       \/ watcher.pc = "p_sample" /\ watcher'.pc \notin {"p_sample", "p_kget"}
       \/ watcher.pc = "p_kget" /\ watcher'.pc # "p_ksave"
       \/ watcher.pc \in {"s_ksave", "p_ksave"} /\ hist'.commits = hist.commits

\* a step of a sign request that ends it in an error
RequestAttemptFails == \E t \in Requests : req'[t] # req[t] /\ Refused(req'[t])

\* what the failed attempt leaves behind: the rows, the selections, and every
\* unsigned event still passing the checks of sign_numeric_event
LeftRetrySafe ==
    /\ event_nonces' = event_nonces
    /\ \A kind \in {"single", "parlay"} :
          GetMaturedUnsigned(events', event_nonces', event_types', kind, now') =
          GetMaturedUnsigned(events, event_nonces, event_types, kind, now)
    /\ \A e \in DOMAIN events :
          ~Signed(event_nonces, e) =>
              \E v \in Samples : KormirCheck(events', event_nonces', e, v) = "ok"

\* C21: a sign attempt (POST /sign-event, watcher, parlay attestation) that
\* fails before save_signatures commits changes no nonce row, leaves the event
\* in the matured-unsigned selection, and leaves it signable by a later attempt
FailedAttemptRetrySafe ==
    [][(WatcherAttemptFails \/ RequestAttemptFails) => LeftRetrySafe]_vars

FailedAttemptRetrySafeSeen ==
    \E t, u \in Requests, e \in DOMAIN events :
        /\ Refused(req[t]) /\ req[t].eid = e /\ req[t].res = "stats_source"
        /\ SignReplies(u) /\ req[u].eid = e /\ req[u].res = "ok"
        /\ Signed(event_nonces, e)
        /\ hist.commits[e].n = 1

\* the nonce rows of an event
RowsOf(en, e) == {i \in DOMAIN en : en[i].event_id = e}

\* the last reply of GET /attestation to the polling client
Polled == req[ReadClient].pc = "done" /\ req[ReadClient].op = "get_attestation"

\* the reply carries the stored (outcome, signature) pairs of the event in
\* ascending nonce-index order, one pair per nonce
CarriesStoredPairs(r) ==
    LET rows == RowsOf(event_nonces, r.eid)
        a == r.attestation
    IN /\ a.event_id = r.eid
       /\ a.oracle_public_key = ORACLE_PUBLIC_KEY
       /\ Len(a.outcomes) = Cardinality(rows)
       /\ Len(a.signatures) = Cardinality(rows)
       /\ \A i \in rows :
             LET k == Cardinality({j \in rows : j < i}) + 1
             IN /\ a.outcomes[k] = event_nonces[i].outcome
                /\ a.signatures[k] = event_nonces[i].signature

\* C22 as stated: get_attestation returns an error exactly when the event
\* does not exist or none of its nonces carries a signature, and otherwise the
\* stored outcomes and signatures in ascending nonce-index order
AttestationErrorExactly ==
    [][(req'[ReadClient] # req[ReadClient] /\ req'[ReadClient].op = "get_attestation") =>
          LET r == req'[ReadClient]
          IN /\ r.res # "ok" <=>
                   \/ r.eid \notin DOMAIN events
                   \/ ~Signed(event_nonces, r.eid)
             /\ r.res = "ok" => CarriesStoredPairs(r)]_vars

\* C22 amended: the error is returned exactly when the store cannot be read,
\* the event does not exist or none of its nonces carries a signature
AttestationErrorOrStored ==
    [][(req'[ReadClient] # req[ReadClient] /\ req'[ReadClient].op = "get_attestation") =>
          LET r == req'[ReadClient]
          IN /\ r.res \in {"ok", "storage", "not_found", "not_signed"}
             /\ r.res # "storage" =>
                   (r.res # "ok" <=>
                       \/ r.eid \notin DOMAIN events
                       \/ ~Signed(event_nonces, r.eid))
             /\ r.res = "ok" => CarriesStoredPairs(r)]_vars

AttestationErrorOrStoredSeen ==
    /\ Polled
    /\ req[ReadClient].res = "ok"
    /\ Len(req[ReadClient].attestation.signatures) = SINGLE_NB_DIGITS
    /\ \E e \in DOMAIN events : ~Signed(event_nonces, e)

\* the contract a create with the given body and id stands for
Submitted(i, id) ==
    [id |-> id, parameters |-> i.parameters,
     combination_method |-> i.combination_method,
     max_normalized_value |-> IF i.max_normalized_value = <<>> THEN 10000
                              ELSE i.max_normalized_value[1]]

\* C23: after a parlay create succeeded, get_parlay_contract with the event_id
\* returns a contract with that id and the submitted parameters (same values,
\* same order), combination_method and max_normalized_value, 10000 if omitted
ContractReadsBack ==
    LET r == req[ContractReader]
    IN (/\ r.pc = "done" /\ r.op = "get_parlay_contract" /\ r.res = "ok"
        /\ r.eid \in DOMAIN event_types) =>
           /\ r.contract.id = r.eid
           /\ r.contract = parlay_contracts[r.eid]
           /\ \E i \in ContractInputs : r.contract = Submitted(i, r.eid)

\* exact fractions <<numerator, denominator>>
RECURSIVE Gcd(_, _)
Gcd(a, b) == IF b = 0 THEN a ELSE Gcd(b, a % b)

\* the same fraction in lowest terms
Reduce(f) ==
    LET g == Gcd(f[1], f[2])
    IN IF g = 0 THEN f ELSE <<f[1] \div g, f[2] \div g>>

FracMul(a, b) ==
    LET x == Reduce(a)
        y == Reduce(b)
    IN <<x[1] * y[1], x[2] * y[2]>>

RECURSIVE FracProduct(_)
FracProduct(s) ==
    IF s = <<>> THEN Frac(1, 1) ELSE FracMul(Head(s), FracProduct(Tail(s)))

\* n_i = min(max(value_i - threshold, 0) / range, 1) as an exact fraction
NormalizedExactly(p, value) ==
    IF value - p.threshold <= 0 THEN Frac(0, 1)
    ELSE IF value - p.threshold >= p.range THEN Frac(1, 1)
    ELSE Frac(value - p.threshold, p.range)

\* floor(prod_i(n_i) * max_normalized_value)
FloorOfProduct(contract, values) ==
    LET prod == FracProduct([k \in 1..Len(values) |->
                                NormalizedExactly(contract.parameters[k], values[k])])
    IN (prod[1] * contract.max_normalized_value) \div prod[2]

\* the parameters are all above-threshold, linear, of weight 1, combined by multiply
PlainMultiply(contract) ==
    /\ contract.combination_method = "multiply"
    /\ \A k \in 1..Len(contract.parameters) :
          LET p == contract.parameters[k]
          IN p.is_above_threshold /\ p.transformation = "linear" /\ p.weight = Frac(1, 1)

\* C24: for a multiply contract of above-threshold, linear parameters of weight
\* 1 the attestable value equals floor(prod_i(n_i) * max_normalized_value) with
\* n_i = min(max(value_i - threshold, 0) / range, 1)
AttestableIsFloorOfProduct ==
    (watcher.pc = "p_kget" /\ PlainMultiply(parlay_contracts[watcher.eid])) =>
        watcher.outcome = FloorOfProduct(parlay_contracts[watcher.eid], watcher.values)

\* the watcher's step ends a single pass in which every sample, every sign and
\* every audit write succeeded
PassEndsSigned ==
    /\ watcher.pc = "s_audit_data"
    /\ watcher'.pc = "idle"
    /\ \E row \in audit'.data : row.event_id = watcher.eid

\* C25: in a tick in which every sample and every sign succeeds, the watcher
\* signs every matured unsigned single event that the selection returned at
\* the start of the tick, not only the first one in created_at order.
WatcherSignsEveryListed ==
    [][PassEndsSigned =>
          \A k \in 1..Len(watcher.list) :
              events[watcher.list[k]].is_enum \/ Signed(event_nonces', watcher.list[k])]_vars

\* the watcher's step starts a signing pass
PassStarts == watcher.pc = "idle" /\ watcher'.pc \notin {"idle", "exited", "cancelled"}

\* C26: once the stop signal has been sent with value true, the watcher lets
\* the signing pass that is in flight run to completion and then leaves the
\* loop without starting another signing pass, even when a timer tick is
\* already due at that moment.
StopEndsLoopAfterPass ==
    [][timer.stop =>
          /\ ~PassStarts
          /\ watcher.pc # "idle" => watcher'.pc # "cancelled"]_vars

\* C27: when a signing pass lasts longer than the tick interval, the ticks
\* missed meanwhile are dropped: a pass never starts with ticks still owed
\* that would start further passes back to back.
MissedTicksDropped == [][PassStarts => timer'.due = 0]_vars

\* C28: in every reachable state of the store the nonce indices of each event
\* form one contiguous increasing run whose length is the event's nb_digits,
\* also when several creates run concurrently.  (The tables are keyed by
\* event_id and by index: ids and indices are unique as the keys of the rows.)
NonceRunsContiguous ==
    \A e \in DOMAIN events :
        LET idx == NonceIndexesOf(event_nonces, e)
        IN /\ Len(idx) = events[e].nb_digits
           /\ \A k \in 2..Len(idx) : idx[k] = idx[k - 1] + 1

\* the step is a start of the process
Starts == hist'.epoch # hist.epoch

\* C29: PostgresStorage::new sets the counter to the maximum stored index + 1,
\* 1 for an empty store, so that the first index allocated after startup is
\* greater than every persisted index; a construction that fails leaves no
\* allocator.
StartupAbovePersisted ==
    [][(Starts /\ timer'.up) =>
          /\ event_nonces = EmptyTable => current_index' = 1
          /\ \A i \in DOMAIN event_nonces : U32Less(i, current_index')]_vars

\* C30: an allocation that would take the counter past 2^32 - 1 fails: no
\* call returns indices that wrapped around modulo 2^32.
NoWrappedIndexReturned ==
    \A k \in 1..Len(hist.allocs) :
        \A j \in 2..Len(hist.allocs[k].indexes) :
            U32Less(hist.allocs[k].indexes[j - 1], hist.allocs[k].indexes[j])

\* the call of save_signatures that the step made
SavedBy == req'[SaveClient]

\* C31: save_signatures called with a number of pairs different from the
\* number of nonce rows of the event, or for an event_id without event row,
\* returns a storage error and updates no nonce row.
MismatchedSaveRejected ==
    [][(/\ SavedBy.op = "save"
        /\ \/ SavedBy.eid \notin DOMAIN events
           \/ SavedBy.nb_digits # Len(NonceIndexesOf(event_nonces, SavedBy.eid)))
          => /\ SavedBy.res = "storage"
             /\ event_nonces' = event_nonces]_vars

\* a call with 19 or 21 pairs for an existing event was answered with the
\* storage error
MismatchedSaveSeen ==
    /\ req[SaveClient].op = "save"
    /\ req[SaveClient].res = "storage"
    /\ req[SaveClient].eid \in DOMAIN events
    /\ req[SaveClient].nb_digits \in {19, 21}
    /\ events[req[SaveClient].eid].nb_digits = 20

\* the sample v (an i64) is below the threshold t (a u64), as numbers
SampleBelow(v, t) ==
    \/ v[1] = 1
    \/ t[1] = 1
    \/ \E k \in 1..WORD : v[k] < t[k] /\ \A j \in 1..(k - 1) : v[j] = t[j]

\* the sample lies on the side of the threshold that is rewarded
Rewarded(p, v) ==
    IF p.is_above_threshold THEN ~SampleBelow(v, p.threshold) /\ v # p.threshold
    ELSE SampleBelow(v, p.threshold)

\* words of numbers below 2^31
SmallWord(w) == \A k \in 1..(WORD - 31) : w[k] = 0

\* 0 <= x <= 1
F64InUnit(x) == x.c = "num" /\ ~F64Less(x, F64Zero) /\ ~F64Less(F64One, x)

\* x and y are the same number
F64Same(x, y) == x.c = "num" /\ y.c = "num" /\ ~F64Less(x, y) /\ ~F64Less(y, x)

\* C32: normalize_parameter returns a value in [0, 1] for every integer
\* sample: 0 at the threshold and on the side that is not rewarded,
\* distance / range when the distance on the rewarded side is below range, 1
\* when it is at least range; the result is non-decreasing in the sample for
\* is_above_threshold = true and non-increasing for false.
NormalizedInUnitAndMonotone ==
    /\ watcher.pc # "panicked"
    /\ watcher.pc = "normalized" =>
          LET p == NormalizeInput
              v == NormalizeSample
              r == watcher.outcome
          IN /\ F64InUnit(r)
             /\ ~Rewarded(p, v) => F64IsZero(r)
             /\ (Rewarded(p, v) /\ SmallWord(v) /\ SmallWord(p.threshold)) =>
                   LET d == IF p.is_above_threshold
                            THEN U64Value(v) - U64Value(p.threshold)
                            ELSE U64Value(p.threshold) - U64Value(v)
                   IN IF d >= p.range THEN F64Same(r, F64One)
                      ELSE F64Same(r, F64Div(d, p.range))
             /\ \A u \in NormalizeSamples :
                   LET q == NormalizeParameter(p, u)
                   IN IF p.is_above_threshold = I64LessEq(u, v)
                      THEN ~F64Less(r, q)
                      ELSE ~F64Less(q, r)

\* the weights the contract declares and their sum
CombineDeclared ==
    [k \in 1..Len(CombineContract.parameters) |-> CombineContract.parameters[k].weight]

F64Two == F64Num(FALSE, <<1>>, 1)

\* x / w for a double w that is a non-zero multiple of 1/2 below 2^15 in
\* size: 2x / 2w, and 2w is a whole number
QuotByHalves(x, w) ==
    LET w2 == F64Mul(w, F64Two)
        k == U64Value(F64Trunc([w2 EXCEPT !.neg = FALSE]))
        x2 == F64Mul(x, F64Two)
    IN F64Quot([x2 EXCEPT !.neg = (x2.neg # w2.neg)], k)

\* scores and weights are finite, the weights are small and their sum is not 0
PlainAverage ==
    /\ CombineContract.combination_method = "weighted_average"
    /\ Len(watcher.values) > 0
    /\ \A k \in 1..Len(watcher.values) :
          /\ watcher.values[k].c = "num"
          /\ F64MagLess(CombineDeclared[k], F64Num(FALSE, <<1>>, 10))
    /\ ~F64IsZero(F64Fold("sum", F64Zero, CombineDeclared))

\* C33: with the weighted_average method the combined score equals
\* (sum of s_i) / (sum of the declared weights w_i), s_i = transformed_i * w_i
\* being the scores attest_parlay_contract computes: each weight is applied
\* once in the numerator, and the divisor is the sum of weights, not the
\* number of parameters.
AverageOverSumOfWeights ==
    (watcher.pc = "p_combined" /\ PlainAverage) =>
        F64Same(watcher.outcome,
                QuotByHalves(F64Fold("sum", F64Zero, watcher.values),
                             F64Fold("sum", F64Zero, CombineDeclared)))


\* combined_score * max_normalized_value as f64, the product that is converted
ConvertedProduct ==
    F64Mul(watcher.outcome, F64FromNat(CombineContract.max_normalized_value))

\* the whole part of a finite double x, 0 <= x < 2^64, as a u64
FloorWord(x) ==
    LET whole == Len(x.m) + x.e
    IN PadWord([k \in 1..(IF whole > 0 THEN whole ELSE 0) |->
                   IF k <= Len(x.m) THEN x.m[k] ELSE 0])

\* C34: convert_to_attestable_value returns floor(combined_score *
\* max_normalized_value) for a finite non-negative product and 0 for a
\* negative, NaN or infinite product, so the value cast to i64 and passed to
\* the Attester is never negative.
ConvertedIsFloorOrZero ==
    watcher.pc = "p_kget" =>
        LET x == ConvertedProduct
            u == watcher.indexes
        IN /\ (x.c # "num" \/ (x.neg /\ ~F64IsZero(x))) => u = ZeroWord
           /\ (x.c = "num" /\ ~x.neg /\ Len(x.m) + x.e <= WORD) =>
                 u = FloorWord(x)
           /\ u[1] = 0

\* x and y are the same number or the same infinity
F64Equal(x, y) ==
    x.c # "nan" /\ y.c # "nan" /\ ~F64Less(x, y) /\ ~F64Less(y, x)

\* C35: combine_scores with min returns 0 for an empty score vector and the
\* smallest score otherwise; with max it returns max(0, largest score), which
\* is never below zero and is 0 for an empty vector.
MinMaxOfScores ==
    watcher.pc = "p_combined" =>
        LET scores == watcher.values
            r == watcher.outcome
            method == CombineContract.combination_method
        IN /\ method = "min" =>
                 IF scores = <<>> THEN F64IsZero(r)
                 ELSE /\ \E k \in DOMAIN scores : F64Equal(r, scores[k])
                      /\ \A k \in DOMAIN scores : ~F64Less(scores[k], r)
           /\ method = "max" =>
                 /\ r.c # "nan" /\ ~F64Less(r, F64Zero)
                 /\ scores = <<>> => F64IsZero(r)
                 /\ F64IsZero(r) \/ \E k \in DOMAIN scores : F64Equal(r, scores[k])
                 /\ \A k \in DOMAIN scores : ~F64Less(r, scores[k])

\* the identifiers of the four event types in lowercase
LowercaseIdentifier ==
    [Hashrate |-> "hashrate", FeeRate |-> "feerate",
     BlockReward |-> "blockreward",
     DifficultyAdjustment |-> "difficultyadjustment"]

\* the descriptor of an event row is one of a single event of some type
SingleDescriptor(row) ==
    /\ row.nb_digits = 20 /\ row.base = 2 /\ ~row.is_signed /\ ~row.is_enum
    /\ \E value \in EventTypes :
          /\ row.unit = LowercaseIdentifier[value]
          /\ FromStr(row.unit) = [ok |-> TRUE, value |-> value]

\* C36: every single event is created with a 20-digit base-2 unsigned
\* descriptor and a unit equal to the lowercase identifier of its event type,
\* and that unit parses back to the same EventType for all four types, so the
\* sample source of every single event created can be resolved at signing.
SingleUnitParsesBack ==
    /\ [](\A e \in DOMAIN events :
              events[e].unit # "parlay" => SingleDescriptor(events[e]))
    /\ [][\A t \in Requests, value \in EventTypes, m \in Maturities,
             checked \in BOOLEAN :
             (CreateSingleStart(t, value, m, checked) /\ req'[t].pc = "save") =>
                 /\ req'[t].nb_digits = 20
                 /\ req'[t].unit = LowercaseIdentifier[value]
                 /\ FromStr(req'[t].unit) = [ok |-> TRUE, value |-> value]]_vars

\* two single events of different types are stored and tagged
SingleUnitsSeen ==
    \E e, f \in DOMAIN event_types :
        /\ e \in DOMAIN events /\ f \in DOMAIN events
        /\ events[e].unit = "difficultyadjustment"
        /\ events[f].unit = "blockreward"

\* e is an event created through the parlay path
ParlayUnit(e) == e \in DOMAIN events /\ events[e].unit = "parlay"

\* the nonce rows of event e in the table en
OwnNonceRows(en, e) ==
    [i \in {j \in DOMAIN en : en[j].event_id = e} |-> en[i]]

\* C39: POST /sign-event on an event created through the parlay path always
\* returns an error and leaves the event unsigned, because the unit "parlay"
\* does not parse as an EventType; the nonce rows of a parlay event change
\* only in the save of attest_parlay_contract, never in a sign request with a
\* raw statistic as the outcome.
ParlaySignedOnlyByAttest ==
    /\ [](\A t \in Requests :
              (req[t].pc = "done" /\ req[t].op = "sign" /\ ParlayUnit(req[t].eid)) =>
                  req[t].res \in {"storage", "invalid_param"})
    /\ [][\A e \in EventIds :
             (ParlayUnit(e) /\ OwnNonceRows(event_nonces', e) # OwnNonceRows(event_nonces, e)) =>
                 /\ watcher.pc = "p_ksave" /\ watcher.eid = e
                 /\ req' = req]_vars

\* a sign request on a parlay event was answered with the parse error while
\* the event was unsigned
ParlaySignRefused ==
    \E t \in Requests :
        /\ req[t].pc = "done" /\ req[t].op = "sign" /\ req[t].res = "invalid_param"
        /\ ParlayUnit(req[t].eid)
        /\ ~Signed(event_nonces, req[t].eid)

\* C37: save_signatures for event E changes only the outcome and signature
\* columns of E's own nonce rows: the events rows, the nonce bytes and
\* indices, the nonce rows of every other event, the type tags and the parlay
\* contracts are the same before and after the call.
SaveTouchesOwnColumnsOnly ==
    [][/\ events' = events
       /\ event_types' = event_types
       /\ parlay_contracts' = parlay_contracts
       /\ DOMAIN event_nonces' = DOMAIN event_nonces
       /\ \A i \in DOMAIN event_nonces :
             /\ event_nonces'[i].event_id = event_nonces[i].event_id
             /\ event_nonces'[i].nonce = event_nonces[i].nonce
             /\ event_nonces[i].event_id # SavedBy.eid =>
                   event_nonces'[i] = event_nonces[i]]_vars

\* a save for one event has written its rows while another event has rows
SaveAmongOthersSeen ==
    /\ req[SaveClient].pc = "done" /\ req[SaveClient].op = "save"
    /\ req[SaveClient].res = "ok"
    /\ Signed(event_nonces, req[SaveClient].eid)
    /\ \E i \in DOMAIN event_nonces :
          /\ event_nonces[i].event_id # req[SaveClient].eid
          /\ ~Signed(event_nonces, event_nonces[i].event_id)

\* C38: every event row written by create_event has exactly one type tag
\* ("single" or "parlay") in every state after the create call has returned,
\* whether it returned success or an error: no event stays persisted without
\* a tag.
CreatedEventTagged ==
    \A t \in Requests :
        (/\ req[t].pc = "done"
         /\ req[t].op \in {"create_single", "create_parlay"}
         /\ req[t].eid \in DOMAIN events) =>
            /\ req[t].eid \in DOMAIN event_types
            /\ event_types[req[t].eid] \in {"single", "parlay"}

====
